---------------------------- MODULE Spec2Model ----------------------------
(***************************************************************************)
(* Model of westwood, a style linter for C sources.                        *)
(*                                                                         *)
(* The module holds these components, each with its own specification over *)
(* the same variables (the variables of the other components stay idle):   *)
(*   SpecRC      helpers::RangeCollapser          (src/src/helpers/mod.rs) *)
(*   SpecSrc     LinesWithPosition, SourceInfo::new,                       *)
(*               SourceRange::from_byte_range                              *)
(*   SpecDriver  main                             (src/src/main.rs)        *)
(*   SpecQuery   QueryHelper                      (src/src/helpers/mod.rs) *)
(* one specification for the check of each rule modelled (src/src/rules):  *)
(* SpecRule02a, SpecRule02b, SpecRule3b, SpecRule3d, SpecRule03e,          *)
(* SpecRule11a, SpecRule11b, SpecRule12a, SpecRule1d, and                  *)
(*   SpecSnake        guess_lower_snake_case      (src/src/rules/rule1a.rs)*)
(*   SpecIndentWidth  helpers::indent_width       (src/src/helpers/mod.rs) *)
(*   SpecEol          range_without_trailing_eol  (src/src/rules/rule3d.rs)*)
(*   SpecCrashlog     the panic hook              (src/crashlog/src/lib.rs)*)
(*   SpecRegistry     every rule of get_rules, then the machine-format     *)
(*                    printer                     (src/src/main.rs)        *)
(***************************************************************************)
EXTENDS Integers, Sequences, FiniteSets, TLC

VARIABLES
    \* ---- RangeCollapser
    rc_input,       \* the ranges handed to RangeCollapser::from
    rc_src,         \* RangeCollapser.src: what the source iterator still holds
    rc_current,     \* RangeCollapser.current_range: None or a range
    rc_out,         \* the ranges next() has returned so far
    rc_done,        \* next() has returned None
    \* ---- source model
    code,           \* SourceInfo.code, as a sequence of bytes
    remaining_input,\* LinesWithPosition.remaining_input
    index,          \* LinesWithPosition.index
    lines,          \* SourceInfo.lines: sequence of [text, pos]
    src_pc,         \* "idle" | "collect" | "ready"
    sr,             \* outcome of the last SourceRange::from_byte_range call
    \* ---- driver
    pc,             \* position of main
    read_ok,        \* cli.file.contents() returned Ok
    has_error,      \* tree.root_node().has_error()
    rule_i,         \* index of the next rule of the for loop
    checked,        \* the rules whose check has been called, in call order
    results,        \* the diagnostics each called check returned
    printed,        \* the diagnostics written to standard output
    exit_code,      \* "none" | "SUCCESS" | "FAILURE"
    \* ---- query engine
    tree,           \* the parsed tree: [parent, kind]
    query,          \* the compiled query: a sequence of patterns
    q_pc,           \* "idle" | "new" | "matched" | "done"
    got_matches,    \* what the for_each_match handler received
    got_captures,   \* what the for_each_capture handler received
    evals,          \* the predicate evaluations made so far
    stderr,         \* the warnings written to standard error
    \* ---- rules
    rule_code,      \* the code of the rule whose check is called, or "none"
    nodes,          \* what the rule's queries find in the tree of the source
    diags,          \* the Vec<Diagnostic> the check returned
    rule_pc,        \* "idle" | "ready" | "done" | "aborted"
    max_diagnostics,\* the rule's max_diagnostics field: None or Some(n)
    \* ---- functions called on their own
    fn_name,        \* the function called, or "none"
    fn_arg,         \* its argument
    fn_ret,         \* None before the call, Some(value) once it has returned
    \* ---- crashlog
    cl_pc,          \* "idle" | "start" | "installed" | "handled"
    cl_replace,     \* the `replace` argument of setup!
    cl_env,         \* what the panic and the system hold when the hook runs
    cl_hook,        \* the installed panic hook: "old" | "crashlog"
    cl_stderr,      \* what has been written to standard error, in order
    cl_log          \* the lines written to the crash log file, or None

rcVars == <<rc_input, rc_src, rc_current, rc_out, rc_done>>
srcVars == <<code, remaining_input, index, lines, src_pc, sr>>
drvVars == <<pc, read_ok, has_error, rule_i, checked, results, printed, exit_code>>
qVars == <<tree, query, q_pc, got_matches, got_captures, evals, stderr>>
ruleVars == <<rule_code, nodes, diags, rule_pc, max_diagnostics>>
fnVars == <<fn_name, fn_arg, fn_ret>>
clVars == <<cl_pc, cl_replace, cl_env, cl_hook, cl_stderr, cl_log>>
vars == <<rcVars, srcVars, drvVars, qVars, ruleVars, fnVars, clVars>>

None == [kind |-> "None"]
Some(v) == [kind |-> "Some", val |-> v]

(***************************************************************************)
(* Idle values: the state of a component that a specification leaves out.  *)
(***************************************************************************)
RCIdle ==
    /\ rc_input = <<>> /\ rc_src = <<>> /\ rc_current = None
    /\ rc_out = <<>> /\ rc_done = FALSE

SrcIdle ==
    /\ code = <<>> /\ remaining_input = <<>> /\ index = 0
    /\ lines = <<>> /\ src_pc = "idle" /\ sr = None

DrvIdle ==
    /\ pc = "idle" /\ read_ok = FALSE /\ has_error = FALSE /\ rule_i = 1
    /\ checked = <<>> /\ results = <<>> /\ printed = <<>> /\ exit_code = "none"

QIdle ==
    /\ tree = <<>> /\ query = <<>> /\ q_pc = "idle"
    /\ got_matches = <<>> /\ got_captures = <<>> /\ evals = <<>> /\ stderr = <<>>

RuleIdle ==
    /\ rule_code = "none" /\ nodes = <<>> /\ diags = <<>> /\ rule_pc = "idle"
    /\ max_diagnostics = None

FnIdle ==
    /\ fn_name = "none" /\ fn_arg = <<>> /\ fn_ret = None

ClIdle ==
    /\ cl_pc = "idle" /\ cl_replace = FALSE /\ cl_env = <<>>
    /\ cl_hook = "old" /\ cl_stderr = <<>> /\ cl_log = None

(***************************************************************************)
(*                            RangeCollapser                               *)
(***************************************************************************)
\* Bounds of the range inputs.
MaxByte == 4
MaxRanges == 3
\* Bytes per line of the text the ranges lie in (a tree_sitter::Point is the
\* (row, column) of a byte offset).
LineLen == 2

PointOf(b) == <<b \div LineLen, b % LineLen>>

\* tree_sitter::Range of the bytes [s, e)
MkRange(s, e) ==
    [start_byte |-> s, end_byte |-> e,
     start_point |-> PointOf(s), end_point |-> PointOf(e)]

\* The ranges of the text: byte intervals, the empty ones included.
Ranges == { MkRange(p[1], p[2]) :
              p \in { q \in (0..MaxByte) \X (0..MaxByte) : q[1] <= q[2] } }

\* "sorted by position": the start positions never decrease.
IsSorted(rs) ==
    \A i \in 1..(Len(rs) - 1) : rs[i].start_byte <= rs[i+1].start_byte

RangeInputs ==
    { rs \in UNION { [1..n -> Ranges] : n \in 0..MaxRanges } : IsSorted(rs) }

\* current.end_point == next.start_point
Adjacent(current, next) == current.end_point = next.start_point

\* A collapser that moves the end point and forgets the end byte.
ExtendPointOnly(current, next) ==
    [current EXCEPT !.end_point = next.end_point]

\* current.end_point = next.end_point; current.end_byte = next.end_byte
Extend(current, next) ==
    [current EXCEPT !.end_point = next.end_point, !.end_byte = next.end_byte]

\* One call of RangeCollapser::next: the loop runs until it returns.  The
\* result holds what is left of src, the new current_range and the value
\* returned.
RECURSIVE RangeCollapserNext(_, _)
RangeCollapserNext(src, current) ==
    IF src = <<>>
    THEN \* None => return self.current_range.take()
         [src |-> src, current |-> None, ret |-> current]
    ELSE LET next == Head(src) IN
         IF current.kind = "Some"
         THEN IF Adjacent(current.val, next)
              THEN RangeCollapserNext(Tail(src), Some(Extend(current.val, next)))
              ELSE \* return self.current_range.replace(next)
                   [src |-> Tail(src), current |-> Some(next), ret |-> current]
         ELSE RangeCollapserNext(Tail(src), Some(next))

\* RangeCollapser::from, with the input drawn from the sorted sequences.
InitRC ==
    /\ rc_input \in RangeInputs
    /\ rc_src = rc_input
    /\ rc_current = None
    /\ rc_out = <<>>
    /\ rc_done = FALSE
    /\ SrcIdle /\ DrvIdle /\ QIdle /\ RuleIdle /\ FnIdle /\ ClIdle

\* A consumer pulls the next range out of the collapser.
RC_Next ==
    /\ ~rc_done
    /\ LET r == RangeCollapserNext(rc_src, rc_current) IN
         /\ rc_src' = r.src
         /\ rc_current' = r.current
         /\ rc_out' = IF r.ret.kind = "Some" THEN Append(rc_out, r.ret.val) ELSE rc_out
         /\ rc_done' = (r.ret.kind = "None")
    /\ UNCHANGED <<rc_input, srcVars, drvVars, qVars, ruleVars, fnVars, clVars>>

NextRC == RC_Next

SpecRC == InitRC /\ [][NextRC]_vars

\* ---- C1
\* The indices of the input at which a run starts: the first range, and every
\* range that does not start where its predecessor ends.
RunStarts ==
    { i \in 1..Len(rc_input) :
        i = 1 \/ rc_input[i-1].end_point # rc_input[i].start_point }

\* The last index of the run that starts at i.
RunEnd(i) ==
    CHOOSE j \in i..Len(rc_input) :
        /\ \A k \in (i+1)..j : k \notin RunStarts
        /\ (j = Len(rc_input) \/ (j + 1) \in RunStarts)

\* The start of the k-th run.
KthRunStart(k) ==
    CHOOSE b \in RunStarts : Cardinality({ c \in RunStarts : c <= b }) = k

BytesOf(r) == r.start_byte .. (r.end_byte - 1)

CoveredBy(rs) == UNION { BytesOf(rs[i]) : i \in 1..Len(rs) }

\* C1: the ranges RangeCollapser has yielded are, in order, the maximal runs
\* of adjacent input ranges: the k-th output starts (byte and point) where
\* the first range of the k-th run starts and ends where its last range ends;
\* when the collapser is exhausted there is one output per run, the outputs
\* cover the bytes of the inputs, no two consecutive outputs are adjacent,
\* and an empty input has yielded nothing.
C1_RangeCollapser ==
    /\ Len(rc_out) <= Cardinality(RunStarts)
    /\ \A k \in 1..Len(rc_out) :
         LET b == KthRunStart(k) IN
           /\ rc_out[k].start_byte = rc_input[b].start_byte
           /\ rc_out[k].start_point = rc_input[b].start_point
           /\ rc_out[k].end_byte = rc_input[RunEnd(b)].end_byte
           /\ rc_out[k].end_point = rc_input[RunEnd(b)].end_point
    /\ \A k \in 1..(Len(rc_out) - 1) :
         rc_out[k].end_point # rc_out[k+1].start_point
    /\ rc_done =>
         /\ Len(rc_out) = Cardinality(RunStarts)
         /\ CoveredBy(rc_out) = CoveredBy(rc_input)
         /\ (rc_input = <<>> => rc_out = <<>>)

\* A run of two adjacent ranges was merged and a third range kept apart.
C1_Witness ==
    /\ rc_done
    /\ Len(rc_input) = 3
    /\ Len(rc_out) = 2
    /\ rc_out[1].end_byte = rc_input[2].end_byte
    /\ rc_out[1].start_byte = rc_input[1].start_byte

(***************************************************************************)
(*        Source model: LinesWithPosition, SourceInfo, SourceRange         *)
(***************************************************************************)
\* Bound of the input texts, in characters.
MaxChars == 3

\* The characters of the input texts: an ASCII letter, a space, the line
\* separator, a tab, and U+4E2D, a wide character of three bytes.
Chars == {"a", " ", "\n", "\t", "W"}

\* A character's UTF-8 encoding, one string per byte.
Utf8(c) == IF c = "W" THEN <<"E4", "B8", "AD">> ELSE <<c>>

RECURSIVE Encode(_)
Encode(cs) == IF cs = <<>> THEN <<>> ELSE Utf8(Head(cs)) \o Encode(Tail(cs))

\* The valid UTF-8 texts of at most MaxChars characters.
Texts == { Encode(cs) : cs \in UNION { [1..n -> Chars] : n \in 0..MaxChars } }

IsContinuationByte(b) == b \in {"B8", "AD"}

\* str::is_char_boundary, offsets counted from 0
IsCharBoundary(s, i) ==
    \/ i = 0
    \/ i = Len(s)
    \/ (0 < i /\ i < Len(s) /\ ~IsContinuationByte(s[i+1]))

\* &s[..n] and &s[n..]
SliceTo(s, n) == SubSeq(s, 1, n)
SliceFrom(s, n) == SubSeq(s, n + 1, Len(s))

\* str::find('\n'): the offset of the first line separator, or None
FindNewline(s) ==
    IF \E i \in 1..Len(s) : s[i] = "\n"
    THEN Some((CHOOSE i \in 1..Len(s) :
                  s[i] = "\n" /\ \A j \in 1..(i-1) : s[j] # "\n") - 1)
    ELSE None

\* An iterator that leaves the line separator at the head of the rest.
LinesWithPositionNextNoSkip(remaining, idx) ==
    IF remaining = <<>>
    THEN [ret |-> None, remaining |-> remaining, index |-> idx]
    ELSE LET found == FindNewline(remaining)
             eol_index == IF found.kind = "Some" THEN found.val ELSE Len(remaining)
             next_line_start == IF eol_index # Len(remaining)
                                THEN eol_index + 1 ELSE eol_index
         IN [ret |-> Some([text |-> SliceTo(remaining, eol_index), pos |-> idx]),
             remaining |-> SliceFrom(remaining, next_line_start),
             index |-> idx + eol_index]

\* LinesWithPosition::next
LinesWithPositionNext(remaining, idx) ==
    IF remaining = <<>>
    THEN [ret |-> None, remaining |-> remaining, index |-> idx]
    ELSE LET start_index == idx
             found == FindNewline(remaining)
             eol_index == IF found.kind = "Some" THEN found.val ELSE Len(remaining)
             next_line_start == IF eol_index # Len(remaining)
                                THEN eol_index + 1 ELSE eol_index
         IN [ret |-> Some([text |-> SliceTo(remaining, eol_index), pos |-> start_index]),
             remaining |-> SliceFrom(remaining, next_line_start),
             index |-> idx + next_line_start]

\* Display width of one character, by its first byte: unicode_width gives
\* 1 to a printable ASCII character and to a tab and 2 to U+4E2D; a
\* continuation byte adds nothing.
CharWidth(b) ==
    CASE b \in {"a", " "} -> 1
      [] b = "\t" -> 1
      [] b = "E4" -> 2
      [] OTHER -> 0

RECURSIVE StrWidth(_)
StrWidth(s) == IF s = <<>> THEN 0 ELSE CharWidth(Head(s)) + StrWidth(Tail(s))

CountTabs(s) == Cardinality({ i \in 1..Len(s) : s[i] = "\t" })

\* Columns a tab takes beyond the one unicode_width gives it.
TabExtra == 7

\* line_width: line.width() + (number of tabs) * 7
LineWidth(s) == StrWidth(s) + CountTabs(s) * TabExtra

\* slice::partition_point(|&(_, pos)| pos <= b) on a partitioned slice
PartitionPoint(ls, b) ==
    CHOOSE n \in 0..Len(ls) :
        /\ \A i \in 1..n : ls[i].pos <= b
        /\ (n = Len(ls) \/ ls[n+1].pos > b)

Abort == [kind |-> "abort"]

\* One endpoint of from_byte_range: the line found by the binary search and
\* the width of the line's prefix.  checked_sub(1).unwrap() aborts on 0 and
\* the slice aborts beyond the line's end or inside a character.
Endpoint(ls, b) ==
    LET pp == PartitionPoint(ls, b) IN
    IF pp = 0 THEN Abort
    ELSE LET line_i == pp - 1
             line_pos == ls[line_i + 1].pos
             text == ls[line_i + 1].text
             n == b - line_pos
         IN IF n > Len(text) \/ ~IsCharBoundary(text, n) THEN Abort
            ELSE [kind |-> "ok", row |-> line_i, col |-> LineWidth(SliceTo(text, n))]

\* SourceRange::from_byte_range
FromByteRange(lo, hi, ls) ==
    LET start == Endpoint(ls, lo)
        end == Endpoint(ls, hi)
    IN IF start = Abort \/ end = Abort THEN Abort
       ELSE [kind |-> "ok", bytes |-> <<lo, hi>>,
             start_pos |-> <<start.row, start.col>>,
             end_pos |-> <<end.row, end.col>>]

\* SourceInfo::new starts collecting LinesWithPosition::from(code).
InitSrc ==
    /\ code \in Texts
    /\ remaining_input = code
    /\ index = 0
    /\ lines = <<>>
    /\ src_pc = "collect"
    /\ sr = None
    /\ RCIdle /\ DrvIdle /\ QIdle /\ RuleIdle /\ FnIdle /\ ClIdle

\* collect() pulls one item; None ends the collection and SourceInfo is built.
CollectLine ==
    /\ src_pc = "collect"
    /\ LET r == LinesWithPositionNext(remaining_input, index) IN
         /\ remaining_input' = r.remaining
         /\ index' = r.index
         /\ lines' = IF r.ret.kind = "Some" THEN Append(lines, r.ret.val) ELSE lines
         /\ src_pc' = IF r.ret.kind = "Some" THEN "collect" ELSE "ready"
    /\ UNCHANGED <<code, sr, rcVars, drvVars, qVars, ruleVars, fnVars, clVars>>

\* A rule asks for the SourceRange of a byte range that lies within the text,
\* on character boundaries.
CallFromByteRange ==
    /\ src_pc = "ready"
    /\ \E lo \in 0..Len(code), hi \in 0..Len(code) :
         /\ lo <= hi
         /\ IsCharBoundary(code, lo) /\ IsCharBoundary(code, hi)
         /\ sr' = Some([lo |-> lo, hi |-> hi, ret |-> FromByteRange(lo, hi, lines)])
    /\ UNCHANGED <<code, remaining_input, index, lines, src_pc, rcVars, drvVars, qVars, ruleVars, fnVars, clVars>>

NextSrc == CollectLine \/ CallFromByteRange

SpecSrc == InitSrc /\ [][NextSrc]_vars

\* ---- C2
RECURSIVE JoinLines(_)
JoinLines(ls) ==
    IF ls = <<>> THEN <<>>
    ELSE IF Len(ls) = 1 THEN ls[1].text
    ELSE ls[1].text \o <<"\n">> \o JoinLines(Tail(ls))

EndsWithNewline(s) == s # <<>> /\ s[Len(s)] = "\n"

\* C2: the (line_text, line_start_byte) pairs collected from LinesWithPosition
\* have strictly increasing start bytes, the first is 0, no line text holds a
\* line separator and each line text is the text found at its start byte; once
\* the iteration has ended a non-empty text has a line, and the line texts
\* joined with the separator (plus the final separator of a text that ends
\* with one) are the text.  Every step consumes input, so the number of lines
\* never exceeds the number of bytes consumed: the iteration ends.
C2_LineIndex ==
    /\ \A i \in 1..Len(lines) : \A j \in 1..Len(lines) :
         i < j => lines[i].pos < lines[j].pos
    /\ (lines # <<>> => lines[1].pos = 0)
    /\ \A i \in 1..Len(lines) :
         /\ \A k \in 1..Len(lines[i].text) : lines[i].text[k] # "\n"
         /\ SubSeq(code, lines[i].pos + 1, lines[i].pos + Len(lines[i].text))
              = lines[i].text
    /\ Len(lines) + Len(remaining_input) <= Len(code)
    /\ src_pc = "ready" =>
         /\ (code # <<>> => lines # <<>>)
         /\ JoinLines(lines) \o (IF EndsWithNewline(code) THEN <<"\n">> ELSE <<>>)
              = code

\* A text of two lines that ends with a line separator has been indexed.
C2_Witness ==
    /\ src_pc = "ready"
    /\ Len(lines) = 2
    /\ EndsWithNewline(code)
    /\ lines[2].pos > 0

\* ---- C3
NewlinesBefore(b) == { i \in 1..b : code[i] = "\n" }

\* The row of offset b: the number of line separators before it.
RowOf(b) == Cardinality(NewlinesBefore(b))

\* The offset at which the line of offset b starts.
LineStartOf(b) ==
    IF NewlinesBefore(b) = {} THEN 0
    ELSE CHOOSE i \in NewlinesBefore(b) : \A j \in NewlinesBefore(b) : j <= i

\* C3: every call of from_byte_range on a range within the text returns, and
\* each endpoint b gets the row of its line and the display width of the
\* line's text up to b: an offset just after a line separator is column 0 of
\* the following row.
C3_FromByteRangeTotal ==
    sr.kind = "Some" =>
        /\ sr.val.ret.kind = "ok"
        /\ sr.val.ret.start_pos =
             <<RowOf(sr.val.lo), LineWidth(SubSeq(code, LineStartOf(sr.val.lo) + 1, sr.val.lo))>>
        /\ sr.val.ret.end_pos =
             <<RowOf(sr.val.hi), LineWidth(SubSeq(code, LineStartOf(sr.val.hi) + 1, sr.val.hi))>>

\* Where from_byte_range returns, it returns the positions of C3; it aborts
\* exactly on an endpoint that no line of the index holds: the end of a text
\* that is empty or ends with a line separator.
C3_WhereItReturns ==
    sr.kind = "Some" =>
        /\ (sr.val.ret = Abort) <=>
             (sr.val.hi = Len(code) /\ (code = <<>> \/ EndsWithNewline(code)))
        /\ sr.val.ret # Abort =>
             /\ sr.val.ret.start_pos =
                  <<RowOf(sr.val.lo), LineWidth(SubSeq(code, LineStartOf(sr.val.lo) + 1, sr.val.lo))>>
             /\ sr.val.ret.end_pos =
                  <<RowOf(sr.val.hi), LineWidth(SubSeq(code, LineStartOf(sr.val.hi) + 1, sr.val.hi))>>

(***************************************************************************)
(*                          Driver: main                                   *)
(***************************************************************************)
\* Bound on the number of diagnostics of one run.
MaxDiags == 2

\* rules::get_rules(), in the order of the vec! literal
Registry ==
    <<"Rule01a", "Rule01b", "Rule01c", "Rule01d", "Rule02a", "Rule02b",
      "Rule03a", "Rule03b", "Rule03c", "Rule03d", "Rule03e", "Rule03f",
      "Rule11a">>

\* What rule.check may return: a list of the rule's diagnostics.
CheckResults(rule, room) ==
    { [k \in 1..n |-> [rule |-> rule, n |-> k]] : n \in 0..room }

\* A loop that stops after a rule's first diagnostic.
EmitFirstOnly(out, diagnostics) ==
    IF diagnostics = <<>> THEN out ELSE Append(out, Head(diagnostics))

\* for diagnostic in diagnostics { emit / print_machine_parseable }
EmitAll(out, diagnostics) == out \o diagnostics

InitDriver ==
    /\ pc = "read"
    /\ read_ok = FALSE
    /\ has_error = FALSE
    /\ rule_i = 1
    /\ checked = <<>>
    /\ results = <<>>
    /\ printed = <<>>
    /\ exit_code = "none"
    /\ RCIdle /\ SrcIdle /\ QIdle /\ RuleIdle /\ FnIdle /\ ClIdle

\* match cli.file.contents(): Err returns ExitCode::FAILURE
ReadFile ==
    /\ pc = "read"
    /\ \E ok \in BOOLEAN :
         /\ read_ok' = ok
         /\ pc' = IF ok THEN "parse" ELSE "exit"
         /\ exit_code' = IF ok THEN exit_code ELSE "FAILURE"
    /\ UNCHANGED <<has_error, rule_i, checked, results, printed, rcVars, srcVars, qVars, ruleVars, fnVars, clVars>>

\* parser.parse(&code, None): the tree holds an ERROR or MISSING node or not
ParseCode ==
    /\ pc = "parse"
    /\ \E err \in BOOLEAN : has_error' = err
    /\ pc' = "gate"
    /\ UNCHANGED <<read_ok, rule_i, checked, results, printed, exit_code, rcVars, srcVars, qVars, ruleVars, fnVars, clVars>>

\* A driver that goes on to the rules whatever the tree holds.
SyntaxGateOpen ==
    /\ pc = "gate"
    /\ pc' = "rules"
    /\ UNCHANGED <<read_ok, has_error, rule_i, checked, results, printed, exit_code,
                   rcVars, srcVars, qVars, ruleVars, fnVars, clVars>>

\* if tree.root_node().has_error() { ...; return ExitCode::FAILURE; }
SyntaxGate ==
    /\ pc = "gate"
    /\ pc' = IF has_error THEN "exit" ELSE "rules"
    /\ exit_code' = IF has_error THEN "FAILURE" ELSE exit_code
    /\ UNCHANGED <<read_ok, has_error, rule_i, checked, results, printed,
                   rcVars, srcVars, qVars, ruleVars, fnVars, clVars>>

\* One turn of `for rule in rules`: check, then every diagnostic is emitted.
RunRule ==
    /\ pc = "rules"
    /\ rule_i <= Len(Registry)
    /\ \E diagnostics \in CheckResults(Registry[rule_i], MaxDiags - Len(printed)) :
         /\ checked' = Append(checked, Registry[rule_i])
         /\ results' = Append(results, diagnostics)
         /\ printed' = EmitAll(printed, diagnostics)
    /\ rule_i' = rule_i + 1
    /\ UNCHANGED <<pc, read_ok, has_error, exit_code, rcVars, srcVars, qVars, ruleVars, fnVars, clVars>>

\* A driver whose exit code tells whether diagnostics were found.
FinishByDiagnostics ==
    /\ pc = "rules"
    /\ rule_i > Len(Registry)
    /\ pc' = "exit"
    /\ exit_code' = IF printed = <<>> THEN "SUCCESS" ELSE "FAILURE"
    /\ UNCHANGED <<read_ok, has_error, rule_i, checked, results, printed,
                   rcVars, srcVars, qVars, ruleVars, fnVars, clVars>>

\* The loop is over: ExitCode::SUCCESS
Finish ==
    /\ pc = "rules"
    /\ rule_i > Len(Registry)
    /\ pc' = "exit"
    /\ exit_code' = "SUCCESS"
    /\ UNCHANGED <<read_ok, has_error, rule_i, checked, results, printed,
                   rcVars, srcVars, qVars, ruleVars, fnVars, clVars>>

NextDriver == ReadFile \/ ParseCode \/ SyntaxGate \/ RunRule \/ Finish

SpecDriver == InitDriver /\ [][NextDriver]_vars

\* ---- C4
\* C4: once the parsed tree is known to hold an ERROR or MISSING node, no
\* rule is ever checked and nothing is printed: the driver never enters the
\* rule loop and exits with the failure code.
C4_SyntaxGate ==
    has_error =>
        /\ checked = <<>>
        /\ printed = <<>>
        /\ pc \in {"gate", "exit"}
        /\ (pc = "exit" => exit_code = "FAILURE")

\* The driver has exited on a tree with a syntax error.
C4_Witness == has_error /\ pc = "exit" /\ exit_code = "FAILURE" /\ read_ok

RECURSIVE Flatten(_)
Flatten(ss) == IF ss = <<>> THEN <<>> ELSE Head(ss) \o Flatten(Tail(ss))

NumNodes == 4

Nodes == 1..NumNodes

\* The root of a C tree is a translation_unit; the other nodes take one of
\* three kinds.
InnerKinds == {"function_definition", "if_statement", "identifier"}

\* The trees: node 1 is the root, every other node has a parent of smaller
\* number, and a node's number is its id.
Trees ==
    { [parent |-> p, kind |-> k] :
        p \in { f \in [Nodes -> 0..(NumNodes - 1)] :
                  f[1] = 0 /\ \A n \in Nodes \ {1} : 1 <= f[n] /\ f[n] < n },
        k \in { g \in [Nodes -> InnerKinds \cup {"translation_unit"}] :
                  g[1] = "translation_unit" /\ \A n \in Nodes \ {1} : g[n] \in InnerKinds } }

\* tree.root_node()
RootNode(t) == 1

\* Node::parent
ParentOf(t, n) == IF t.parent[n] = 0 THEN None ELSE Some(t.parent[n])

\* Node::kind
KindOf(t, n) == t.kind[n]

\* a is n or an ancestor of n
RECURSIVE IsAncestorOrSelf(_, _, _)
IsAncestorOrSelf(t, a, n) ==
    IF a = n THEN TRUE
    ELSE IF t.parent[n] = 0 THEN FALSE
    ELSE IsAncestorOrSelf(t, a, t.parent[n])

\* Node::child_with_descendant: the child of node that is the descendant or
\* holds it; None when node holds no such child.
ChildWithDescendant(t, node, target) ==
    LET cs == { c \in DOMAIN t.parent :
                  t.parent[c] = node /\ IsAncestorOrSelf(t, c, target) }
    IN IF cs = {} THEN None ELSE Some(CHOOSE c \in cs : TRUE)

\* The operators of the predicates, a "not-" prefix being a token of its own.
NotPrefix == "not-"

\* A prefix strip that forgets that it stripped.
StripNotForgets(orig_op) ==
    IF Head(orig_op) = NotPrefix
    THEN [op |-> Tail(orig_op), negate |-> FALSE]
    ELSE [op |-> orig_op, negate |-> FALSE]

\* orig_op.strip_prefix("not-").map_or((orig_op, false), |rest| (rest, true))
StripNot(orig_op) ==
    IF Head(orig_op) = NotPrefix
    THEN [op |-> Tail(orig_op), negate |-> TRUE]
    ELSE [op |-> orig_op, negate |-> FALSE]

\* qmatch.nodes_for_capture_index(capture_index): the queries modelled bind
\* every capture to one node, so the two "exactly one" tests pass.
NodeForCaptureIndex(qmatch, capture_index) ==
    LET is == { i \in 1..Len(qmatch.captures) :
                  qmatch.captures[i].index = capture_index }
    IN qmatch.captures[CHOOSE i \in is : TRUE].node

\* A walk that tests a node's kind before it tests whether it is the target.
RECURSIVE HasAncestorKindFirst(_, _, _, _, _)
HasAncestorKindFirst(t, maybe_node, target, kind, steps) ==
    IF maybe_node.kind = "None" THEN [found |-> FALSE, steps |-> steps]
    ELSE LET node == maybe_node.val IN
         IF KindOf(t, node) = kind THEN [found |-> TRUE, steps |-> steps]
         ELSE IF node = target THEN [found |-> FALSE, steps |-> steps]
         ELSE HasAncestorKindFirst(t, ChildWithDescendant(t, node, target),
                                   target, kind, steps + 1)

\* The while loop of "has-ancestor?": from maybe_node down to the target.
\* steps counts the calls of child_with_descendant.
RECURSIVE HasAncestorWalk(_, _, _, _, _)
HasAncestorWalk(t, maybe_node, target, kind, steps) ==
    IF maybe_node.kind = "None" THEN [found |-> FALSE, steps |-> steps]
    ELSE LET node == maybe_node.val IN
         IF node = target THEN [found |-> FALSE, steps |-> steps]
         ELSE IF KindOf(t, node) = kind THEN [found |-> TRUE, steps |-> steps]
         ELSE HasAncestorWalk(t, ChildWithDescendant(t, node, target),
                              target, kind, steps + 1)

\* target.parent().is_some_and(|parent| parent.kind() == kind)
HasParent(t, target, kind) ==
    LET parent == ParentOf(t, target) IN
    parent.kind = "Some" /\ KindOf(t, parent.val) = kind

\* An unknown operator that is let through.
UnknownPredicatePasses(orig_op) == [result |-> TRUE, warn |-> <<orig_op>>]

\* _ => { eprintln!("WARNING: Ignoring unknown predicate ..."); false }
UnknownPredicate(orig_op) == [result |-> FALSE, warn |-> <<orig_op>>]

\* QueryHelper::predicate_matches.  A predicate is [operator, capture, kind]:
\* the argument shape [Capture, String] of every predicate of the rules.
PredicateMatches(t, predicate, qmatch) ==
    LET orig_op == predicate.operator
        stripped == StripNot(orig_op)
        op == stripped.op
        negate == stripped.negate
        target == NodeForCaptureIndex(qmatch, predicate.capture)
        walk == HasAncestorWalk(t, Some(RootNode(t)), target, predicate.kind, 0)
        unknown == UnknownPredicate(orig_op)
        result == CASE op = <<"has-ancestor?">> -> walk.found
                    [] op = <<"has-parent?">> -> HasParent(t, target, predicate.kind)
                    [] OTHER -> unknown.result
    IN [operator |-> orig_op, node |-> target, kind |-> predicate.kind,
        result |-> (result # negate),
        steps |-> IF op = <<"has-ancestor?">> THEN walk.steps ELSE 0,
        warn |-> IF op \in {<<"has-ancestor?">>, <<"has-parent?">>}
                 THEN <<>> ELSE unknown.warn]

\* A test that passes as soon as one predicate holds.
RECURSIVE PredicatesAny(_, _, _)
PredicatesAny(t, predicates, qmatch) ==
    IF predicates = <<>> THEN [ok |-> FALSE, log |-> <<>>]
    ELSE LET e == PredicateMatches(t, Head(predicates), qmatch) IN
         IF e.result THEN [ok |-> TRUE, log |-> <<e>>]
         ELSE LET rest == PredicatesAny(t, Tail(predicates), qmatch)
              IN [ok |-> rest.ok, log |-> <<e>> \o rest.log]

\* custom_predicates.iter().all(|pred| self.predicate_matches(pred, qmatch)):
\* the predicates are evaluated in order up to the first that fails.  log
\* holds the evaluations made.
RECURSIVE PredicatesAll(_, _, _)
PredicatesAll(t, predicates, qmatch) ==
    IF predicates = <<>> THEN [ok |-> TRUE, log |-> <<>>]
    ELSE LET e == PredicateMatches(t, Head(predicates), qmatch) IN
         IF ~e.result THEN [ok |-> FALSE, log |-> <<e>>]
         ELSE LET rest == PredicatesAll(t, Tail(predicates), qmatch)
              IN [ok |-> rest.ok, log |-> <<e>> \o rest.log]

\* self.query.general_predicates(qmatch.pattern_index)
GeneralPredicates(q, pattern_index) == q[pattern_index].predicates

\* The warnings of a log, in order.
RECURSIVE Warnings(_)
Warnings(log) == IF log = <<>> THEN <<>> ELSE Head(log).warn \o Warnings(Tail(log))

\* query.capture_names(): the name of each capture index
CaptureNames ==
    <<"anc", "notanc", "par", "notpar", "unk", "notunk", "parunk", "notunkanc",
      "outer", "inner", "plain">>

Pred(operator, capture, kind) ==
    [operator |-> operator, capture |-> capture, kind |-> kind]

\* A pattern (_) @c with its predicates
AnyNode(c, predicates) ==
    [shape |-> "any", captures |-> <<c>>, predicates |-> predicates]

\* The compiled query for one kind name K: a pattern for each custom
\* predicate and its negation, for an operator the helper does not know and
\* its negation, for two predicates in a row, a pattern of two captures
\* (_ (_) @inner) @outer, and a pattern (identifier) @plain without predicate.
QueryFor(K) ==
    << AnyNode(1, << Pred(<<"has-ancestor?">>, 1, K) >>),
       AnyNode(2, << Pred(<<"not-", "has-ancestor?">>, 2, K) >>),
       AnyNode(3, << Pred(<<"has-parent?">>, 3, K) >>),
       AnyNode(4, << Pred(<<"not-", "has-parent?">>, 4, K) >>),
       AnyNode(5, << Pred(<<"has-child?">>, 5, K) >>),
       AnyNode(6, << Pred(<<"not-", "has-child?">>, 6, K) >>),
       AnyNode(7, << Pred(<<"has-parent?">>, 7, K), Pred(<<"has-child?">>, 7, K) >>),
       AnyNode(8, << Pred(<<"not-", "has-child?">>, 8, K),
                     Pred(<<"has-ancestor?">>, 8, K) >>),
       [shape |-> "child", captures |-> <<9, 10>>,
        predicates |-> << Pred(<<"not-", "has-ancestor?">>, 10, K) >>],
       [shape |-> "identifier", captures |-> <<11>>, predicates |-> <<>>] >>

\* The kind names the predicates are asked about.
KindArgs == {"translation_unit", "function_definition"}

Queries == { QueryFor(K) : K \in KindArgs }

\* The matches of pattern number p that are anchored at node n: none or one.
MatchesAt(t, q, n, p) ==
    LET pat == q[p] IN
    CASE pat.shape = "any" ->
           << [pattern_index |-> p,
               captures |-> << [index |-> pat.captures[1], node |-> n] >>] >>
      [] pat.shape = "child" ->
           IF t.parent[n] = 0 THEN <<>>
           ELSE << [pattern_index |-> p,
                    captures |-> << [index |-> pat.captures[1], node |-> t.parent[n]],
                                    [index |-> pat.captures[2], node |-> n] >>] >>
      [] OTHER ->
           IF KindOf(t, n) = pat.shape
           THEN << [pattern_index |-> p,
                    captures |-> << [index |-> pat.captures[1], node |-> n] >>] >>
           ELSE <<>>

\* cursor.matches(&self.query, self.tree.root_node(), self.code): the matches
\* of the query, by node and then by pattern.
RECURSIVE MatchesFrom(_, _, _, _)
MatchesFrom(t, q, n, p) ==
    IF n > Len(t.parent) THEN <<>>
    ELSE IF p > Len(q) THEN MatchesFrom(t, q, n + 1, 1)
    ELSE MatchesAt(t, q, n, p) \o MatchesFrom(t, q, n, p + 1)

CursorMatches(t, q) == MatchesFrom(t, q, 1, 1)

\* cursor.captures(...): every capture of every match, as the pair
\* (qmatch, capture_index_within_match)
RECURSIVE CapturesOf(_)
CapturesOf(ms) ==
    IF ms = <<>> THEN <<>>
    ELSE [i \in 1..Len(Head(ms).captures) |->
            [qmatch |-> Head(ms), capture_index_within_match |-> i]]
         \o CapturesOf(Tail(ms))

CursorCaptures(t, q) == CapturesOf(CursorMatches(t, q))

\* The while loop of for_each_match over the matches the cursor still holds:
\* handler collects what the handler has been called with, log the predicate
\* evaluations made.
RECURSIVE MatchLoop(_, _, _, _, _)
MatchLoop(t, q, matches, handler, log) ==
    IF matches = <<>> THEN [handler |-> handler, log |-> log]
    ELSE LET qmatch == Head(matches)
             custom_predicates == GeneralPredicates(q, qmatch.pattern_index)
             all == PredicatesAll(t, custom_predicates, qmatch)
         IN MatchLoop(t, q, Tail(matches),
                      IF all.ok THEN Append(handler, qmatch) ELSE handler,
                      log \o all.log)

\* The while loop of for_each_capture.
RECURSIVE CaptureLoop(_, _, _, _, _)
CaptureLoop(t, q, captures, handler, log) ==
    IF captures = <<>> THEN [handler |-> handler, log |-> log]
    ELSE LET qmatch == Head(captures).qmatch
             capture_index_within_match == Head(captures).capture_index_within_match
             custom_predicates == GeneralPredicates(q, qmatch.pattern_index)
             all == PredicatesAll(t, custom_predicates, qmatch)
             capture == qmatch.captures[capture_index_within_match]
             name == CaptureNames[capture.index]
         IN CaptureLoop(t, q, Tail(captures),
                        IF all.ok
                        THEN Append(handler, [name |-> name, capture |-> capture])
                        ELSE handler,
                        log \o all.log)

\* QueryHelper::new on a parsed tree.
InitQuery ==
    /\ tree \in Trees
    /\ query \in Queries
    /\ q_pc = "new"
    /\ got_matches = <<>>
    /\ got_captures = <<>>
    /\ evals = <<>>
    /\ stderr = <<>>
    /\ RCIdle /\ SrcIdle /\ DrvIdle /\ RuleIdle /\ FnIdle /\ ClIdle

\* QueryHelper::for_each_match with a handler that keeps what it is given
ForEachMatch ==
    /\ q_pc = "new"
    /\ LET r == MatchLoop(tree, query, CursorMatches(tree, query), <<>>, <<>>) IN
         /\ got_matches' = r.handler
         /\ evals' = evals \o r.log
         /\ stderr' = stderr \o Warnings(r.log)
    /\ q_pc' = "matched"
    /\ UNCHANGED <<tree, query, got_captures, rcVars, srcVars, drvVars, ruleVars, fnVars, clVars>>

\* QueryHelper::for_each_capture with a handler that keeps what it is given
ForEachCapture ==
    /\ q_pc = "matched"
    /\ LET r == CaptureLoop(tree, query, CursorCaptures(tree, query), <<>>, <<>>) IN
         /\ got_captures' = r.handler
         /\ evals' = evals \o r.log
         /\ stderr' = stderr \o Warnings(r.log)
    /\ q_pc' = "done"
    /\ UNCHANGED <<tree, query, got_matches, rcVars, srcVars, drvVars, ruleVars, fnVars, clVars>>

NextQuery == ForEachMatch \/ ForEachCapture

SpecQuery == InitQuery /\ [][NextQuery]_vars

\* ---- the meaning of the predicates, stated on the tree
ProperAncestors(n) ==
    { a \in DOMAIN tree.parent : a # n /\ IsAncestorOrSelf(tree, a, n) }

Depth(n) == Cardinality(ProperAncestors(n))

KnownOps == { <<"has-ancestor?">>, <<"has-parent?">> }

IsNegated(operator) == Head(operator) = "not-"

BaseOp(operator) == IF IsNegated(operator) THEN Tail(operator) ELSE operator

\* What the positive form of an operator means for node n and kind K.
PositiveMeaning(operator, n, K) ==
    CASE BaseOp(operator) = <<"has-ancestor?">> ->
           \E a \in ProperAncestors(n) : tree.kind[a] = K
      [] BaseOp(operator) = <<"has-parent?">> ->
           tree.parent[n] # 0 /\ tree.kind[tree.parent[n]] = K
      [] OTHER -> FALSE

CapturedNode(qmatch, c) ==
    qmatch.captures[CHOOSE i \in 1..Len(qmatch.captures) :
                       qmatch.captures[i].index = c].node

PredicateHolds(predicate, qmatch) ==
    PositiveMeaning(predicate.operator, CapturedNode(qmatch, predicate.capture),
                    predicate.kind) # IsNegated(predicate.operator)

\* All custom predicates of the match's pattern hold.
MatchHolds(qmatch) ==
    \A i \in 1..Len(query[qmatch.pattern_index].predicates) :
        PredicateHolds(query[qmatch.pattern_index].predicates[i], qmatch)

ItemHolds(item) == MatchHolds(item.qmatch)

\* The captures (capture index and node) of a sequence of matches.
CapturesOfMatches(ms) ==
    UNION { { ms[i].captures[k] : k \in 1..Len(ms[i].captures) } : i \in 1..Len(ms) }

RECURSIVE CountCaptures(_)
CountCaptures(ms) ==
    IF ms = <<>> THEN 0 ELSE Len(Head(ms).captures) + CountCaptures(Tail(ms))

\* ---- C7
\* C7: for_each_match has handed to its handler, once each and in the
\* cursor's order, the matches of the cursor whose pattern's custom
\* predicates all hold, and no other; for_each_capture has handed over, once
\* each and with their names, the captures of the cursor that belong to such
\* matches, and these are the captures of the matches for_each_match
\* delivered.
C7_Delivery ==
    /\ q_pc \in {"matched", "done"} =>
         got_matches = SelectSeq(CursorMatches(tree, query), MatchHolds)
    /\ q_pc = "done" =>
         LET items == SelectSeq(CursorCaptures(tree, query), ItemHolds) IN
           /\ Len(got_captures) = Len(items)
           /\ \A i \in 1..Len(items) :
                /\ got_captures[i].capture =
                     items[i].qmatch.captures[items[i].capture_index_within_match]
                /\ got_captures[i].name = CaptureNames[got_captures[i].capture.index]
           /\ { got_captures[i].capture : i \in 1..Len(got_captures) } =
                CapturesOfMatches(got_matches)
           /\ Len(got_captures) = CountCaptures(got_matches)

\* Both calls have returned: some matches were delivered, some were not, and
\* a delivered match of two captures gave two captures.
C7_Witness ==
    /\ q_pc = "done"
    /\ got_matches # <<>>
    /\ Len(got_matches) < Len(CursorMatches(tree, query))
    /\ Len(got_captures) > Len(got_matches)
    /\ \E i \in 1..Len(got_matches) :
         Len(query[got_matches[i].pattern_index].predicates) = 2

\* ---- C8
\* C8: every evaluation of has-ancestor? has returned TRUE exactly when a
\* proper ancestor of the captured node has the kind asked for (the node's
\* own kind does not count), and the walk from the root, also the one made
\* for the negated form, took at most depth(node) descents.
C8_HasAncestor ==
    \A i \in 1..Len(evals) :
        /\ evals[i].operator = <<"has-ancestor?">> =>
             evals[i].result =
               (\E a \in ProperAncestors(evals[i].node) : tree.kind[a] = evals[i].kind)
        /\ BaseOp(evals[i].operator) = <<"has-ancestor?">> =>
             evals[i].steps <= Depth(evals[i].node)

\* has-ancestor? was false for a node of the kind asked for and true for a
\* node whose parent is not of that kind but whose grandparent is.
C8_Witness ==
    /\ \E i \in 1..Len(evals) :
         /\ evals[i].operator = <<"has-ancestor?">>
         /\ tree.kind[evals[i].node] = evals[i].kind
         /\ ~evals[i].result
    /\ \E i \in 1..Len(evals) :
         /\ evals[i].operator = <<"has-ancestor?">>
         /\ evals[i].result
         /\ evals[i].steps >= 1
         /\ tree.kind[tree.parent[evals[i].node]] # evals[i].kind

\* ---- C9
EvalSet == { evals[i] : i \in 1..Len(evals) }

\* C9: whenever has-ancestor? or has-parent? and its not- form have been
\* evaluated on the same node and kind, the two results are opposite; and
\* not-has-parent? has been TRUE on the root.
C9_Negation ==
    /\ \A e \in { x \in EvalSet : IsNegated(x.operator) /\ BaseOp(x.operator) \in KnownOps } :
         \A f \in { y \in EvalSet : y.operator = BaseOp(e.operator)
                                      /\ y.node = e.node /\ y.kind = e.kind } :
            e.result = ~f.result
    /\ \A e \in EvalSet :
         (e.operator = <<"not-", "has-parent?">> /\ e.node = RootNode(tree)) => e.result

\* Both forms of both predicates were evaluated on one node, the root among
\* them, with both outcomes.
C9_Witness ==
    /\ \E e \in EvalSet : \E f \in EvalSet :
         /\ e.operator = <<"not-", "has-parent?">> /\ f.operator = <<"has-parent?">>
         /\ e.node = RootNode(tree) /\ f.node = RootNode(tree)
         /\ e.result /\ ~f.result
    /\ \E e \in EvalSet : \E f \in EvalSet :
         /\ e.operator = <<"not-", "has-ancestor?">> /\ f.operator = <<"has-ancestor?">>
         /\ e.node = f.node /\ e.kind = f.kind
         /\ ~e.result /\ f.result
    /\ \E e \in EvalSet : \E f \in EvalSet :
         /\ e.operator = <<"not-", "has-parent?">> /\ f.operator = <<"has-parent?">>
         /\ e.node = f.node /\ e.kind = f.kind
         /\ ~e.result /\ f.result

\* ---- C10
IsUnknownEval(e) == BaseOp(e.operator) \notin KnownOps

HasUnknownPositive(qmatch) ==
    \E i \in 1..Len(query[qmatch.pattern_index].predicates) :
        LET operator == query[qmatch.pattern_index].predicates[i].operator
        IN ~IsNegated(operator) /\ operator \notin KnownOps

\* C10: every evaluation of a predicate with an unknown operator has returned
\* FALSE, and TRUE for its not- form, and has written one warning naming the
\* operator; no match of a pattern with an unknown positive predicate has
\* been delivered; and the loops went on to the end of their cursors: the
\* matches of the last pattern, which has no predicate, were all delivered.
C10_UnknownPredicate ==
    /\ \A i \in 1..Len(evals) :
         IsUnknownEval(evals[i]) => evals[i].result = IsNegated(evals[i].operator)
    /\ LET unknown == SelectSeq(evals, IsUnknownEval) IN
         /\ Len(stderr) = Len(unknown)
         /\ \A i \in 1..Len(unknown) : stderr[i] = unknown[i].operator
    /\ \A i \in 1..Len(got_matches) : ~HasUnknownPositive(got_matches[i])
    /\ q_pc \in {"matched", "done"} =>
         \A k \in 1..Len(CursorMatches(tree, query)) :
            LET m == CursorMatches(tree, query)[k] IN
              query[m.pattern_index].predicates = <<>> =>
                \E i \in 1..Len(got_matches) : got_matches[i] = m

\* Warnings were written, the not- form of the unknown operator let a match
\* through, and a match that the cursor yields after a rejected one was
\* delivered.
C10_Witness ==
    /\ q_pc = "done"
    /\ stderr # <<>>
    /\ \E i \in 1..Len(got_matches) :
         query[got_matches[i].pattern_index].predicates
           = << Pred(<<"not-", "has-child?">>, 6, query[6].predicates[1].kind) >>
    /\ \E i \in 1..Len(got_matches) :
         /\ query[got_matches[i].pattern_index].predicates = <<>>
         /\ got_matches[i].captures[1].node = Len(tree.parent)

(***************************************************************************)
(*                        Rules: what they share                           *)
(***************************************************************************)
\* Bound of the input files of the rules, in lines.
MaxLines == 3

\* LinesWithPosition::from(code).collect()
RECURSIVE CollectLines(_, _)
CollectLines(remaining, idx) ==
    LET r == LinesWithPositionNext(remaining, idx) IN
    IF r.ret.kind = "None" THEN <<>>
    ELSE <<r.ret.val>> \o CollectLines(r.remaining, r.index)

\* The state SourceInfo::new(filename, c) leaves: the text and its lines.
SourceInfoNew(c) ==
    /\ code = c
    /\ remaining_input = <<>>
    /\ index = Len(c)
    /\ lines = CollectLines(c, 0)
    /\ src_pc = "ready"
    /\ sr = None

\* The text whose lines are ts, each followed by the line separator.
RECURSIVE Unlines(_)
Unlines(ts) == IF ts = <<>> THEN <<>> ELSE Head(ts) \o <<"\n">> \o Unlines(Tail(ts))

\* The sequences of at most MaxLines lines drawn from L.
LineSeqs(L) == UNION { [1..n -> L] : n \in 0..MaxLines }

\* n letters
Pad(n) == [i \in 1..n |-> "a"]

\* char::is_whitespace, on the bytes of the texts
IsWhitespace(b) == b \in {" ", "\t", "\n", "\r"}

\* str::trim_start
RECURSIVE TrimStart(_)
TrimStart(s) ==
    IF s # <<>> /\ IsWhitespace(Head(s)) THEN TrimStart(Tail(s)) ELSE s

\* str::trim_end
RECURSIVE TrimEnd(_)
TrimEnd(s) ==
    IF s # <<>> /\ IsWhitespace(s[Len(s)]) THEN TrimEnd(SliceTo(s, Len(s) - 1)) ELSE s

\* SourceRange { bytes, start_pos, end_pos }
SourceRange(lo, hi, start_pos, end_pos) ==
    [bytes |-> <<lo, hi>>, start_pos |-> start_pos, end_pos |-> end_pos]

\* Span::new(filename, range, label)
Span(range, label) == [range |-> range, label |-> label]

\* Diagnostic::new(rule, message).with_violations(..).with_references(..)
Diagnostic(r, message, violations, references) ==
    [rule |-> r, message |-> message,
     violations |-> violations, references |-> references]

\* What the claims mean by display width: a tab counts 8 columns, U+4E2D two,
\* any other character one.
RECURSIVE DisplayWidth(_)
DisplayWidth(s) ==
    IF s = <<>> THEN 0
    ELSE (CASE Head(s) = "\t" -> 8
            [] Head(s) = "E4" -> 2
            [] IsContinuationByte(Head(s)) -> 0
            [] OTHER -> 1) + DisplayWidth(Tail(s))

\* The diagnostics of ds that carry the message msg, in order.
RECURSIVE WithMessage(_, _)
WithMessage(ds, msg) ==
    IF ds = <<>> THEN <<>>
    ELSE (IF Head(ds).message = msg THEN <<Head(ds)>> ELSE <<>>)
         \o WithMessage(Tail(ds), msg)

(***************************************************************************)
(*                    Rule II:A (src/src/rules/rule02a.rs)                 *)
(***************************************************************************)
\* The column limit of `width > 80`.
LineLimit == 80

WRAPPED_LINE_INDENT_WIDTH == 2

LineLengthMessage == "Line length exceeds 80 columns."
WrappedMessage == "Wrapped expressions/statements must be indented by at least 2 spaces"

\* Lines around the limit: 80 and 81 letters, the same widths reached with a
\* tab or with a wide character in front, and a short line.
LongLines ==
    { <<"a">>,
      Pad(LineLimit), Pad(LineLimit + 1),
      <<"\t">> \o Pad(LineLimit - (TabExtra + 1)),
      <<"\t">> \o Pad(LineLimit - TabExtra),
      Utf8("W") \o Pad(LineLimit - 2),
      Utf8("W") \o Pad(LineLimit - 1) }

\* Lines with the indentations the wrapping check tells apart.
WrappedLines ==
    { <<>>, <<"a">>, <<" ", "a">>, <<" ", " ", "a">>, <<"\t", "a">> }

\* A node of the tree, by the rows of its range.
RowNode(s, e) == [start_row |-> s, end_row |-> e]

\* The matches of QUERY_STR in a file of n lines: one @splittable node, or a
\* @splittable.begin and a @splittable.end token.  A node starts on a line of
\* the file and ends on the same row or later, at most at the row that
\* follows the last line separator.
OneCapture(n) ==
    { <<[name |-> "splittable", node |-> RowNode(p[1], p[2])]>> :
        p \in { q \in (0..(n-1)) \X (0..n) : q[1] <= q[2] } }

TwoCaptures(n) ==
    { <<[name |-> "splittable.begin", node |-> RowNode(p[1], p[1])],
        [name |-> "splittable.end", node |-> RowNode(p[2], p[2])]>> :
        p \in { q \in (0..(n-1)) \X (0..(n-1)) : q[1] <= q[2] } }

MatchSeqs(n) ==
    LET M == OneCapture(n) \cup TwoCaptures(n) IN
    {<<>>} \cup { <<m>> : m \in M } \cup { <<m[1], m[2]>> : m \in M \X OneCapture(n) }

\* A limit that also rejects a line exactly 80 columns wide.
TooLongInclusive(width) == width >= LineLimit

\* width > 80
TooLong(width) == width > LineLimit

\* The loop over the lines: one diagnostic for each line that is too long.
\* i is the 0-based index of the first line of ls.
RECURSIVE LineLengthLoop(_, _)
LineLengthLoop(ls, i) ==
    IF ls = <<>> THEN <<>>
    ELSE LET line == Head(ls).text
             idx == Head(ls).pos
             width == LineWidth(line)
         IN (IF TooLong(width)
             THEN <<Diagnostic("II:A", LineLengthMessage,
                               <<Span(SourceRange(idx + LineLimit, idx + Len(line),
                                                  <<i, LineLimit>>,
                                                  <<i, idx + Len(line)>>), "")>>,
                               <<>>)>>
             ELSE <<>>)
            \o LineLengthLoop(Tail(ls), i + 1)

\* get_indentation: &line[0..(line.len() - line.trim_start().len())]
GetIndentation(line) == SliceTo(line, Len(line) - Len(TrimStart(line)))

\* The range of a match: the node of its one capture, or from the start of
\* @splittable.begin to the end of @splittable.end.
SplittableRange(qmatch) ==
    IF Len(qmatch) = 1 THEN qmatch[1].node
    ELSE RowNode(qmatch[1].node.start_row, qmatch[2].node.end_row)

\* An expected width without the two extra columns.
ExpectedIndentWidthSame(first_line_indent_width) == first_line_indent_width

\* first_line_indent_width + WRAPPED_LINE_INDENT_WIDTH
ExpectedIndentWidth(first_line_indent_width) ==
    first_line_indent_width + WRAPPED_LINE_INDENT_WIDTH

\* A comparison that also rejects a line indented by exactly the expected width.
UnderIndentedInclusive(this_line_indent_width, expected_indent_width) ==
    this_line_indent_width <= expected_indent_width

\* this_line_indent_width < expected_indent_width
UnderIndented(this_line_indent_width, expected_indent_width) ==
    this_line_indent_width < expected_indent_width

\* The loop over the continuation lines i..last (0-based) of a match.
RECURSIVE ViolationLoop(_, _, _, _)
ViolationLoop(ls, i, last, expected_indent_width) ==
    IF i > last THEN <<>>
    ELSE LET this_line == ls[i + 1].text
             this_line_pos == ls[i + 1].pos
             this_line_indent == GetIndentation(this_line)
             this_line_indent_width == LineWidth(this_line_indent)
         IN (IF UnderIndented(this_line_indent_width, expected_indent_width)
             THEN <<Span(SourceRange(this_line_pos,
                                     this_line_pos + Len(this_line_indent),
                                     <<i, 0>>, <<i, Len(this_line_indent)>>),
                         <<"Expected >=", expected_indent_width,
                           "columns of indentation on continuing line">>)>>
             ELSE <<>>)
            \o ViolationLoop(ls, i + 1, last, expected_indent_width)

\* The handler of for_each_match: the diagnostics one match adds.
\* skip(start row).take(end row + 1 - start row) stops at the last line.
WrappedMatch(ls, qmatch) ==
    LET range == SplittableRange(qmatch) IN
    IF range.start_row = range.end_row THEN <<>>
    ELSE LET first_line_index == range.start_row
             first_line == ls[first_line_index + 1].text
             first_line_byte_pos == ls[first_line_index + 1].pos
             first_line_indent == GetIndentation(first_line)
             first_line_indent_width == LineWidth(first_line_indent)
             expected_indent_width == ExpectedIndentWidth(first_line_indent_width)
             last == IF range.end_row < Len(ls) THEN range.end_row ELSE Len(ls) - 1
             violations == ViolationLoop(ls, first_line_index + 1, last,
                                         expected_indent_width)
         IN IF violations = <<>> THEN <<>>
            ELSE <<Diagnostic("II:A", WrappedMessage, violations,
                     <<Span(SourceRange(first_line_byte_pos,
                                        first_line_byte_pos + Len(first_line_indent),
                                        <<first_line_index, 0>>,
                                        <<first_line_index, Len(first_line_indent)>>),
                            <<"Found indentation of", first_line_indent_width,
                              "columns on initial line">>)>>)>>

RECURSIVE WrappedLoop(_, _)
WrappedLoop(ls, matches) ==
    IF matches = <<>> THEN <<>>
    ELSE WrappedMatch(ls, Head(matches)) \o WrappedLoop(ls, Tail(matches))

\* Rule02a::check
Rule02aCheckResult(ls, matches) == LineLengthLoop(ls, 0) \o WrappedLoop(ls, matches)

\* A source whose lines are near the column limit, or a source with short
\* lines and the constructs the query matches in it.
InitRule02a ==
    /\ \/ \E ts \in LineSeqs(LongLines) :
            SourceInfoNew(Unlines(ts)) /\ nodes = <<>>
       \/ \E ts \in LineSeqs(WrappedLines) :
            SourceInfoNew(Unlines(ts)) /\ nodes \in MatchSeqs(Len(ts))
    /\ rule_code = "II:A"
    /\ diags = <<>>
    /\ rule_pc = "ready"
    /\ max_diagnostics = None
    /\ RCIdle /\ DrvIdle /\ QIdle /\ FnIdle /\ ClIdle

Rule02aCheck ==
    /\ rule_pc = "ready"
    /\ rule_code = "II:A"
    /\ diags' = Rule02aCheckResult(lines, nodes)
    /\ rule_pc' = "done"
    /\ UNCHANGED <<rule_code, nodes, max_diagnostics,
                   rcVars, srcVars, drvVars, qVars, fnVars, clVars>>

NextRule02a == Rule02aCheck

SpecRule02a == InitRule02a /\ [][NextRule02a]_vars

Rule02aDone == rule_code = "II:A" /\ rule_pc = "done"

\* The row a span starts on.
RowOfSpan(span) == span.range.start_pos[1]

\* ---- C11
\* C11: Rule II:A returns exactly one line-length diagnostic, with one
\* violation span and no reference, for each line whose display width (a tab
\* counting 8 columns) is greater than 80, and none for any other line; in
\* particular none for a line 80 columns wide and one for a line 81 wide.
C11_LineLength ==
    Rule02aDone =>
      LET lld == WithMessage(diags, LineLengthMessage) IN
      /\ \A k \in 1..Len(lld) :
           /\ Len(lld[k].violations) = 1
           /\ lld[k].references = <<>>
           /\ RowOfSpan(lld[k].violations[1]) \in 0..(Len(lines) - 1)
      /\ \A i \in 0..(Len(lines) - 1) :
           Cardinality({ k \in 1..Len(lld) : RowOfSpan(lld[k].violations[1]) = i })
             = IF DisplayWidth(lines[i + 1].text) > 80 THEN 1 ELSE 0

\* The check has run on a file that holds a line 80 columns wide with a tab
\* in it and a line 81 columns wide, and reported the second only.
C11_Witness ==
    /\ Rule02aDone
    /\ \E i, j \in 1..Len(lines) :
         /\ DisplayWidth(lines[i].text) = 80 /\ "\t" \in { lines[i].text[k] : k \in 1..Len(lines[i].text) }
         /\ DisplayWidth(lines[j].text) = 81
    /\ Len(WithMessage(diags, LineLengthMessage)) = 1

\* ---- C12
\* The byte offset within line at which display column c starts.
ColumnOffset(line, c) ==
    CHOOSE n \in 0..Len(line) :
        /\ IsCharBoundary(line, n)
        /\ DisplayWidth(SliceTo(line, n)) >= c
        /\ \A m \in 0..(n-1) :
             IsCharBoundary(line, m) => DisplayWidth(SliceTo(line, m)) < c

\* C12: the violation span of every line-length diagnostic is consistent
\* with the source: its bytes lie within the line (line_start <= lo <= hi <=
\* line_end <= len(text)), it starts at (row, 80) with lo the byte offset of
\* display column 80 of the line, and it ends at the end of the line, at
\* (row, display width of the line).
C12_LineLengthSpan ==
    Rule02aDone =>
      LET lld == WithMessage(diags, LineLengthMessage) IN
      \A k \in 1..Len(lld) :
        LET v == lld[k].violations[1].range
            i == v.start_pos[1]
            line == lines[i + 1].text
            line_start == lines[i + 1].pos
            line_end == line_start + Len(line)
            lo == v.bytes[1]
            hi == v.bytes[2]
        IN /\ line_start <= lo /\ lo <= hi /\ hi <= line_end /\ line_end <= Len(code)
           /\ v.start_pos = <<i, 80>>
           /\ lo = line_start + ColumnOffset(line, 80)
           /\ hi = line_end
           /\ v.end_pos = <<i, DisplayWidth(line)>>

\* Where the span is consistent: on a first line whose first 80 bytes are 80
\* columns, which is the case of a line of one-column characters.
C12_WhereConsistent ==
    Rule02aDone =>
      LET lld == WithMessage(diags, LineLengthMessage) IN
      \A k \in 1..Len(lld) :
        LET v == lld[k].violations[1].range
            i == v.start_pos[1]
            line == lines[i + 1].text
        IN (i = 0 /\ DisplayWidth(line) = Len(line)) =>
             /\ v.bytes = <<80, Len(line)>>
             /\ v.start_pos = <<0, 80>>
             /\ v.end_pos = <<0, DisplayWidth(line)>>

\* ---- C13
\* The leading whitespace of row r (0-based) of the file.
IndentOf(r) ==
    LET line == lines[r + 1].text
        n == CHOOSE k \in 0..Len(line) :
               /\ \A j \in 1..k : IsWhitespace(line[j])
               /\ (k = Len(line) \/ ~IsWhitespace(line[k + 1]))
    IN SliceTo(line, n)

MultiRow(qmatch) ==
    SplittableRange(qmatch).start_row # SplittableRange(qmatch).end_row

\* The rows of the file after the first row of the construct, up to its last.
ContinuationRows(qmatch) ==
    { r \in (SplittableRange(qmatch).start_row + 1)..SplittableRange(qmatch).end_row :
        r < Len(lines) }

\* The continuation rows indented by less than the first row's indentation
\* plus 2.
BadRows(qmatch) ==
    { r \in ContinuationRows(qmatch) :
        DisplayWidth(IndentOf(r))
          < DisplayWidth(IndentOf(SplittableRange(qmatch).start_row)) + 2 }

IsFlagged(qmatch) == MultiRow(qmatch) /\ BadRows(qmatch) # {}

\* The constructs that have a continuation row indented too little, in order.
Flagged == SelectSeq(nodes, IsFlagged)

\* The bytes of the leading whitespace of row r.
IndentBytes(r) == <<lines[r + 1].pos, lines[r + 1].pos + Len(IndentOf(r))>>

\* C13: the wrapped-indentation diagnostics are, in order, one for each
\* construct on several rows that has a row after its first indented by less
\* than the first row's indentation width plus 2; the diagnostic has exactly
\* one violation span for each such row, over the row's leading whitespace,
\* and exactly one reference span, over the first row's indentation.  A
\* construct on one row, or without such a row, has no diagnostic.
C13_WrappedIndentation ==
    Rule02aDone =>
      LET wd == WithMessage(diags, WrappedMessage) IN
      /\ Len(wd) = Len(Flagged)
      /\ \A j \in 1..Len(wd) :
           LET d == wd[j]
               m == Flagged[j]
           IN /\ Len(d.violations) = Cardinality(BadRows(m))
              /\ \A r \in BadRows(m) :
                   Cardinality({ k \in 1..Len(d.violations) :
                                   /\ RowOfSpan(d.violations[k]) = r
                                   /\ d.violations[k].range.bytes = IndentBytes(r) }) = 1
              /\ Len(d.references) = 1
              /\ RowOfSpan(d.references[1]) = SplittableRange(m).start_row
              /\ d.references[1].range.bytes = IndentBytes(SplittableRange(m).start_row)

\* The check has reported a construct of three rows with two violation
\* spans, and has passed a construct on one row and a construct whose
\* continuation row is indented by two more columns.
C13_Witness ==
    /\ Rule02aDone
    /\ Len(nodes) = 2
    /\ Len(WithMessage(diags, WrappedMessage)) = 1
    /\ \E k \in 1..Len(nodes) :
         /\ Cardinality(BadRows(nodes[k])) = 2
         /\ Len(WithMessage(diags, WrappedMessage)[1].violations) = 2
    /\ \E k \in 1..Len(nodes) :
         /\ MultiRow(nodes[k]) /\ ContinuationRows(nodes[k]) # {}
         /\ BadRows(nodes[k]) = {}

\* ---- C14
\* The continuation rows of the construct carry the same indentation bytes as
\* its first row.
SameIndentation(qmatch) ==
    \A r \in ContinuationRows(qmatch) :
        IndentOf(r) = IndentOf(SplittableRange(qmatch).start_row)

\* The diagnostic d is about the construct: its reference is on the
\* construct's first row and its violations on the construct's later rows.
IsAbout(d, qmatch) ==
    /\ RowOfSpan(d.references[1]) = SplittableRange(qmatch).start_row
    /\ \A k \in 1..Len(d.violations) :
         RowOfSpan(d.violations[k]) \in ContinuationRows(qmatch)

\* C14 as stated: the wrapped-indentation check fires only for constructs on
\* several rows, and a construct on several rows whose continuation rows have
\* the same indentation bytes as its first row gets no wrapped-indentation
\* diagnostic.
C14_SameIndentationPasses ==
    Rule02aDone =>
      LET wd == WithMessage(diags, WrappedMessage) IN
      /\ \A j \in 1..Len(wd) :
           \E k \in 1..Len(nodes) : MultiRow(nodes[k]) /\ IsAbout(wd[j], nodes[k])
      /\ \A k \in 1..Len(nodes) :
           (MultiRow(nodes[k]) /\ SameIndentation(nodes[k])) =>
             ~ \E j \in 1..Len(wd) : IsAbout(wd[j], nodes[k])

\* C14 (amended): the wrapped-indentation check fires only for constructs on
\* several rows, and a construct on several rows whose continuation rows have
\* the same indentation bytes as its first row fails the check: it gets a
\* wrapped-indentation diagnostic with one violation span for each of its
\* continuation rows.
C14_SameIndentationFails ==
    Rule02aDone =>
      LET wd == WithMessage(diags, WrappedMessage) IN
      /\ \A j \in 1..Len(wd) :
           \E k \in 1..Len(nodes) : MultiRow(nodes[k]) /\ IsAbout(wd[j], nodes[k])
      /\ \A k \in 1..Len(nodes) :
           (/\ MultiRow(nodes[k])
            /\ ContinuationRows(nodes[k]) # {}
            /\ SameIndentation(nodes[k])) =>
             \E j \in 1..Len(wd) :
                /\ IsAbout(wd[j], nodes[k])
                /\ { RowOfSpan(wd[j].violations[i]) : i \in 1..Len(wd[j].violations) }
                     = ContinuationRows(nodes[k])
                /\ Len(wd[j].violations) = Cardinality(ContinuationRows(nodes[k]))

\* The check has reported a construct of two rows whose rows are both
\* indented by the same two spaces, and has reported nothing for a construct
\* on one row.
C14_Witness ==
    /\ Rule02aDone
    /\ \E k \in 1..Len(nodes) :
         /\ MultiRow(nodes[k])
         /\ ContinuationRows(nodes[k]) # {}
         /\ SameIndentation(nodes[k])
         /\ IndentOf(SplittableRange(nodes[k]).start_row) = <<" ", " ">>
         /\ \E j \in 1..Len(diags) :
              diags[j].message = WrappedMessage /\ IsAbout(diags[j], nodes[k])
    /\ \E k \in 1..Len(nodes) : ~MultiRow(nodes[k])
    /\ Len(WithMessage(diags, WrappedMessage)) = 1

(***************************************************************************)
(*                    Rule II:B (src/src/rules/rule02b.rs)                 *)
(***************************************************************************)
PAGE_SIZE == 61
MAX_PAGES_PER_FUNCTION == 2

\* The function definitions of the tree: a name and a range that starts at
\* column 0 of a row and ends after the closing brace, some rows below.  The
\* lengths are one line and the lengths around the limit.
FunctionLengths ==
    {1} \cup { MAX_PAGES_PER_FUNCTION * PAGE_SIZE + d : d \in {-1, 0, 1, 2} }

FunctionNodes ==
    { [fname |-> f, range |-> MkRange(r * LineLen, (r + len - 1) * LineLen + 1)] :
        f \in {"main", "f"}, r \in 0..MaxLines, len \in FunctionLengths }

\* What for_each_capture hands to the handler: (function_definition) @function
FunctionCaptures ==
    LET C == { [name |-> "function", node |-> n] : n \in FunctionNodes } IN
    {<<>>} \cup { <<c>> : c \in C } \cup { <<c[1], c[2]>> : c \in C \X C }

\* impl From<Node<'_>> for SourceRange
SourceRangeFromNode(node) ==
    SourceRange(node.range.start_byte, node.range.end_byte,
                node.range.start_point, node.range.end_point)

\* helpers::function_definition_name, on a definition whose declarators lead
\* to its identifier
FunctionDefinitionName(node) == node.fname

\* A limit that also rejects a function of exactly 122 lines.
TooLongFunctionInclusive(length) == length >= MAX_PAGES_PER_FUNCTION * PAGE_SIZE

\* length > MAX_PAGES_PER_FUNCTION * PAGE_SIZE
TooLongFunction(length) == length > MAX_PAGES_PER_FUNCTION * PAGE_SIZE

\* The handler of for_each_capture: the diagnostics one capture adds.
Rule02bCapture(capture) ==
    LET start == capture.node.range.start_point
        end == capture.node.range.end_point
        length == end[1] - start[1] + 1
    IN IF TooLongFunction(length)
       THEN <<Diagnostic("II:B",
                <<"Functions must fit on", MAX_PAGES_PER_FUNCTION,
                  "pages, i.e. be no longer than",
                  MAX_PAGES_PER_FUNCTION * PAGE_SIZE, "lines">>,
                <<Span(SourceRangeFromNode(capture.node),
                       <<"Function", FunctionDefinitionName(capture.node),
                         "is", length, "lines long">>)>>,
                <<>>)>>
       ELSE <<>>

\* Rule02b::check
RECURSIVE Rule02bCheckResult(_)
Rule02bCheckResult(captures) ==
    IF captures = <<>> THEN <<>>
    ELSE Rule02bCapture(Head(captures)) \o Rule02bCheckResult(Tail(captures))

InitRule02b ==
    /\ nodes \in FunctionCaptures
    /\ rule_code = "II:B"
    /\ diags = <<>>
    /\ rule_pc = "ready"
    /\ max_diagnostics = None
    /\ RCIdle /\ SrcIdle /\ DrvIdle /\ QIdle /\ FnIdle /\ ClIdle

Rule02bCheck ==
    /\ rule_pc = "ready"
    /\ rule_code = "II:B"
    /\ diags' = Rule02bCheckResult(nodes)
    /\ rule_pc' = "done"
    /\ UNCHANGED <<rule_code, nodes, max_diagnostics,
                   rcVars, srcVars, drvVars, qVars, fnVars, clVars>>

NextRule02b == Rule02bCheck

SpecRule02b == InitRule02b /\ [][NextRule02b]_vars

Rule02bDone == rule_code = "II:B" /\ rule_pc = "done"

\* ---- C15
\* The number of lines a function definition spans.
LinesOfFunction(capture) ==
    capture.node.range.end_point[1] - capture.node.range.start_point[1] + 1

IsLongFunction(capture) == LinesOfFunction(capture) > 122

MaxGap == 2

\* What separates an operand from an operator: spaces and line separators,
\* or one tab.
Gaps ==
    UNION { [1..n -> {" ", "\n"}] : n \in 0..MaxGap } \cup { <<"\t">> }

\* Label::primary((), range) and Label::secondary((), range)
Label(style, range, message) == [style |-> style, range |-> range, message |-> message]

\* Diagnostic::warning().with_code(code).with_message(message).with_labels(labels)
Warning(c, message, labels) == [rule |-> c, message |-> message, labels |-> labels]

\* The row of the byte offset b of a text.
RowAt(text, b) == Cardinality({ i \in 1..b : text[i] = "\n" })

\* The node over the bytes [s, e) of a text.
NodeIn(text, s, e) ==
    [start_byte |-> s, end_byte |-> e,
     start_row |-> RowAt(text, s), end_row |-> RowAt(text, e)]

\* The text of a sequence of statements `a + a;`, one per line, each with its
\* two gaps.
RECURSIVE BinaryText(_)
BinaryText(exprs) ==
    IF exprs = <<>> THEN <<>>
    ELSE <<"a">> \o Head(exprs)[1] \o <<"+">> \o Head(exprs)[2] \o <<"a", ";", "\n">>
         \o BinaryText(Tail(exprs))

\* The matches of QUERY_STR_BINARY in that text, from the byte offset off on.
RECURSIVE BinaryMatches(_, _, _)
BinaryMatches(text, exprs, off) ==
    IF exprs = <<>> THEN <<>>
    ELSE LET g1 == Len(Head(exprs)[1])
             g2 == Len(Head(exprs)[2])
         IN <<[prev |-> NodeIn(text, off, off + 1),
               op |-> NodeIn(text, off + 1 + g1, off + 2 + g1),
               next |-> NodeIn(text, off + 2 + g1 + g2, off + 3 + g1 + g2)]>>
            \o BinaryMatches(text, Tail(exprs), off + 5 + g1 + g2)

\* The files of binary expressions: one or two statements.
BinaryFiles ==
    { <<e>> : e \in Gaps \X Gaps } \cup
    { <<e[1], e[2]>> : e \in (Gaps \X Gaps) \X (Gaps \X Gaps) }

\* The text `!a; a[]; a.a;` with the gaps u, r, f1 and f2 after the unary
\* operator, before the bracket and around the field operator.
OtherText(u, r, f1, f2) ==
    <<"!">> \o u \o <<"a", ";", "\n">>
    \o <<"a">> \o r \o <<"[", "]", ";", "\n">>
    \o <<"a">> \o f1 \o <<".">> \o f2 \o <<"a", ";", "\n">>

\* The matches of the four queries in a file of binary expressions.
TreeOfBinaryFile(exprs) ==
    [binary |-> BinaryMatches(BinaryText(exprs), exprs, 0),
     unary |-> <<>>, array |-> <<>>, field |-> <<>>]

\* The matches of the four queries in the text OtherText(u, r, f1, f2).
TreeOfOtherFile(u, r, f1, f2) ==
    LET text == OtherText(u, r, f1, f2)
        a == 4 + Len(u)                 \* start of the array statement
        f == a + 5 + Len(r)             \* start of the field statement
    IN [binary |-> <<>>,
        unary |-> <<[op |-> NodeIn(text, 0, 1),
                     next |-> NodeIn(text, 1 + Len(u), 2 + Len(u))]>>,
        array |-> <<[prev |-> NodeIn(text, a, a + 1),
                     lbrack |-> NodeIn(text, a + 1 + Len(r), a + 2 + Len(r))]>>,
        field |-> <<[prev |-> NodeIn(text, f, f + 1),
                     op |-> NodeIn(text, f + 1 + Len(f1), f + 2 + Len(f1)),
                     next |-> NodeIn(text, f + 2 + Len(f1) + Len(f2),
                                     f + 3 + Len(f1) + Len(f2))]>>]

\* A test that accepts any single byte between the two nodes.
IsSingleByteBetween(left, right, c) == left.end_byte + 1 = right.start_byte

\* is_single_space_between: the second operand is evaluated only when the
\* first holds, so the index is inside the text.
IsSingleSpaceBetween(left, right, c) ==
    /\ left.end_byte + 1 = right.start_byte
    /\ c[left.end_byte + 1] = " "

BeforeMessage == "Expected a single space before binary operator"
AfterMessage == "Expected a single space after binary operator"
EachSideMessage == "Expected a single space on each side of binary operator"

\* check_binary_op_spacing: a sequence of no or one diagnostic
CheckBinaryOpSpacing(op, left, right, c) ==
    LET left_bad == /\ left.end_row = op.start_row
                    /\ ~IsSingleSpaceBetween(left, op, c)
        right_bad == /\ op.end_row = right.start_row
                     /\ ~IsSingleSpaceBetween(op, right, c)
    IN CASE left_bad /\ right_bad ->
              <<Warning("III:B", EachSideMessage,
                        <<Label("primary", <<left.end_byte, right.start_byte>>, "")>>)>>
         [] left_bad /\ ~right_bad ->
              <<Warning("III:B", BeforeMessage,
                        <<Label("primary", <<left.end_byte, op.end_byte>>, "")>>)>>
         [] ~left_bad /\ right_bad ->
              <<Warning("III:B", AfterMessage,
                        <<Label("primary", <<op.start_byte, right.start_byte>>, "")>>)>>
         [] OTHER -> <<>>

\* check_field_op_spacing
CheckFieldOpSpacing(op, left, right) ==
    LET left_bad == left.end_byte # op.start_byte
        right_bad == op.end_byte # right.start_byte
    IN CASE left_bad /\ right_bad ->
              <<Warning("III:B", "Expected no space around field access operator",
                        <<Label("primary", <<left.end_byte, right.start_byte>>, "")>>)>>
         [] left_bad /\ ~right_bad ->
              <<Warning("III:B", "Expected no space before field access operator",
                        <<Label("primary", <<left.end_byte, op.start_byte>>, "")>>)>>
         [] ~left_bad /\ right_bad ->
              <<Warning("III:B", "Expected no space after field access operator",
                        <<Label("primary", <<op.end_byte, right.start_byte>>, "")>>)>>
         [] OTHER -> <<>>

\* The four for_each_match loops of Rule3b::check.
RECURSIVE BinaryLoop(_, _)
BinaryLoop(matches, c) ==
    IF matches = <<>> THEN <<>>
    ELSE CheckBinaryOpSpacing(Head(matches).op, Head(matches).prev, Head(matches).next, c)
         \o BinaryLoop(Tail(matches), c)

RECURSIVE UnaryLoop(_)
UnaryLoop(matches) ==
    IF matches = <<>> THEN <<>>
    ELSE (IF Head(matches).op.end_byte # Head(matches).next.start_byte
          THEN <<Warning("III:B", "Expected no space after unary operator",
                   <<Label("primary", <<Head(matches).op.end_byte,
                                        Head(matches).next.start_byte>>, "")>>)>>
          ELSE <<>>)
         \o UnaryLoop(Tail(matches))

RECURSIVE ArrayLoop(_)
ArrayLoop(matches) ==
    IF matches = <<>> THEN <<>>
    ELSE (IF Head(matches).prev.end_byte # Head(matches).lbrack.start_byte
          THEN <<Warning("III:B", "Expected no space before array subscript",
                   <<Label("primary", <<Head(matches).prev.end_byte,
                                        Head(matches).lbrack.start_byte>>, "")>>)>>
          ELSE <<>>)
         \o ArrayLoop(Tail(matches))

RECURSIVE FieldLoop(_)
FieldLoop(matches) ==
    IF matches = <<>> THEN <<>>
    ELSE CheckFieldOpSpacing(Head(matches).op, Head(matches).prev, Head(matches).next)
         \o FieldLoop(Tail(matches))

\* Rule3b::check
Rule3bCheckResult(t, c) ==
    BinaryLoop(t.binary, c) \o UnaryLoop(t.unary) \o ArrayLoop(t.array)
    \o FieldLoop(t.field)

InitRule3b ==
    /\ \/ \E exprs \in BinaryFiles :
            /\ SourceInfoNew(BinaryText(exprs))
            /\ nodes = TreeOfBinaryFile(exprs)
       \/ \E u \in {<<>>, <<" ">>}, r \in {<<>>, <<" ">>},
             f1 \in {<<>>, <<" ">>}, f2 \in {<<>>, <<" ">>} :
            /\ SourceInfoNew(OtherText(u, r, f1, f2))
            /\ nodes = TreeOfOtherFile(u, r, f1, f2)
    /\ rule_code = "III:B"
    /\ diags = <<>>
    /\ rule_pc = "ready"
    /\ max_diagnostics = None
    /\ RCIdle /\ DrvIdle /\ QIdle /\ FnIdle /\ ClIdle

Rule3bCheck ==
    /\ rule_pc = "ready"
    /\ rule_code = "III:B"
    /\ diags' = Rule3bCheckResult(nodes, code)
    /\ rule_pc' = "done"
    /\ UNCHANGED <<rule_code, nodes, max_diagnostics,
                   rcVars, srcVars, drvVars, qVars, fnVars, clVars>>

NextRule3b == Rule3bCheck

SpecRule3b == InitRule3b /\ [][NextRule3b]_vars

Rule3bDone == rule_code = "III:B" /\ rule_pc = "done"

\* ---- C16
\* The bytes of the text between the end of one node and the start of another.
Between(left, right) == SubSeq(code, left.end_byte + 1, right.start_byte)

\* A side is wrong: the two nodes meet on one row and what separates them is
\* not exactly one ASCII space.
LeftWrong(m) == m.prev.end_row = m.op.start_row /\ Between(m.prev, m.op) # <<" ">>
RightWrong(m) == m.op.end_row = m.next.start_row /\ Between(m.op, m.next) # <<" ">>

IsWrong(m) == LeftWrong(m) \/ RightWrong(m)

IsBinaryDiagnostic(d) == d.message \in {BeforeMessage, AfterMessage, EachSideMessage}

\* C16: the diagnostics about binary operators are, in order, one for each
\* binary expression with a wrong side, and none for any other: a side is
\* wrong iff operand and operator meet on one row and are not separated by
\* exactly one ASCII space; the message says "each side", "before" or "after"
\* according to the wrong sides, so an operand on another row than the
\* operator is never what a report is about.
C16_BinarySpacing ==
    Rule3bDone =>
      LET bd == SelectSeq(diags, IsBinaryDiagnostic)
          wrong == SelectSeq(nodes.binary, IsWrong)
      IN /\ Len(bd) = Len(wrong)
         /\ \A j \in 1..Len(bd) :
              bd[j].message =
                IF LeftWrong(wrong[j]) /\ RightWrong(wrong[j]) THEN EachSideMessage
                ELSE IF LeftWrong(wrong[j]) THEN BeforeMessage
                ELSE AfterMessage
         /\ \A j \in 1..Len(bd) :
              /\ wrong[j].prev.end_row # wrong[j].op.start_row
                   => bd[j].message = AfterMessage
              /\ wrong[j].op.end_row # wrong[j].next.start_row
                   => bd[j].message = BeforeMessage

\* The check has passed an expression with one space on each side, and has
\* reported "after" for an expression whose left operand is on the row above
\* the operator and whose right operand follows a tab.
C16_Witness ==
    /\ Rule3bDone
    /\ Len(nodes.binary) = 2
    /\ ~IsWrong(nodes.binary[1])
    /\ nodes.binary[2].prev.end_row # nodes.binary[2].op.start_row
    /\ Between(nodes.binary[2].op, nodes.binary[2].next) = <<"\t">>
    /\ Len(diags) = 1
    /\ diags[1].message = AfterMessage

(***************************************************************************)
(*                    Rule III:D (src/src/rules/rule3d.rs)                 *)
(***************************************************************************)
\* The lines of the input files: a #define at column 0, an indented
\* #define, a blank line, a line of code, the line that opens a function
\* (`f{`: the body starts at its second byte) and the line that closes it.
LineKinds == {"define", "idefine", "blank", "code", "open", "close"}

TextOfKind(k) ==
    CASE k = "define" -> <<"#", "D">>
      [] k = "idefine" -> <<" ", "#", "D">>
      [] k = "blank" -> <<>>
      [] k = "code" -> <<"a">>
      [] k = "open" -> <<"f", "{">>
      [] k = "close" -> <<"}">>

\* Every function is closed and no function lies within another.
RECURSIVE Balanced(_, _)
Balanced(ks, inside) ==
    IF ks = <<>> THEN ~inside
    ELSE CASE Head(ks) = "open" -> ~inside /\ Balanced(Tail(ks), TRUE)
           [] Head(ks) = "close" -> inside /\ Balanced(Tail(ks), FALSE)
           [] OTHER -> Balanced(Tail(ks), inside)

\* The files, as the kinds of their lines: up to MaxLines + 2 lines, which
\* is what a function with two groups of #define statements takes.
Skeletons ==
    { ks \in UNION { [1..n -> LineKinds] : n \in 1..(MaxLines + 2) } :
        Balanced(ks, FALSE) }

\* The text of a file; eol tells whether its last line ends with "\n".
RECURSIVE SkeletonLines(_)
SkeletonLines(ks) ==
    IF ks = <<>> THEN <<>> ELSE <<TextOfKind(Head(ks))>> \o SkeletonLines(Tail(ks))

SkeletonText(ks, eol) ==
    LET t == Unlines(SkeletonLines(ks)) IN
    IF eol THEN t ELSE SliceTo(t, Len(t) - 1)

\* The byte offset at which row r (0-based) of the file starts.
RECURSIVE LineStart(_, _)
LineStart(ks, r) ==
    IF r = 0 THEN 0
    ELSE Len(TextOfKind(ks[r])) + 1 + LineStart(ks, r - 1)

IsDefineKind(k) == k \in {"define", "idefine"}

\* The range of the preproc_def node on row r: it starts at the `#` and
\* holds the line separator that ends the line, when there is one.
DefineNode(ks, eol, r) ==
    LET col == IF ks[r + 1] = "idefine" THEN 1 ELSE 0
        b == LineStart(ks, r)
        len == Len(TextOfKind(ks[r + 1]))
        has_eol == (r + 1 < Len(ks)) \/ eol
    IN [start_byte |-> b + col,
        end_byte |-> IF has_eol THEN b + len + 1 ELSE b + len,
        start_point |-> <<r, col>>,
        end_point |-> IF has_eol THEN <<r + 1, 0>> ELSE <<r, len>>]

\* Row r lies within a function definition.
InFunction(ks, r) ==
    Cardinality({ i \in 1..r : ks[i] = "open" })
      > Cardinality({ i \in 1..r : ks[i] = "close" })

\* The row of the line that closes the function opened on row r.
CloseOf(ks, r) ==
    CHOOSE c \in (r + 1)..(Len(ks) - 1) :
        /\ ks[c + 1] = "close"
        /\ \A d \in (r + 1)..(c - 1) : ks[d + 1] # "close"

\* The compound_statement of the function opened on row r, with the
\* function_definition that is its parent.
BodyNode(ks, r) ==
    [start_byte |-> LineStart(ks, r) + 1,
     end_byte |-> LineStart(ks, CloseOf(ks, r)) + 1,
     parent |-> [start_byte |-> LineStart(ks, r),
                 end_byte |-> LineStart(ks, CloseOf(ks, r)) + 1,
                 fname |-> "f"]]

\* The captures of QUERY_STR, in the order of the file, from row r on:
\* @define, @define.global (no function_definition above it) and
\* @function.body.
RECURSIVE DefinesFrom(_, _, _, _)
DefinesFrom(ks, eol, r, global_only) ==
    IF r >= Len(ks) THEN <<>>
    ELSE (IF IsDefineKind(ks[r + 1]) /\ (~global_only \/ ~InFunction(ks, r))
          THEN <<DefineNode(ks, eol, r)>> ELSE <<>>)
         \o DefinesFrom(ks, eol, r + 1, global_only)

RECURSIVE BodiesFrom(_, _)
BodiesFrom(ks, r) ==
    IF r >= Len(ks) THEN <<>>
    ELSE (IF ks[r + 1] = "open" THEN <<BodyNode(ks, r)>> ELSE <<>>)
         \o BodiesFrom(ks, r + 1)

\* The four lists the for_each_capture handler of Rule3d::check fills.
TreeOfSkeleton(ks, eol) ==
    LET bodies == BodiesFrom(ks, 0) IN
    [function_bodies |-> bodies,
     definitions |-> DefinesFrom(ks, eol, 0, FALSE),
     global_definitions |-> DefinesFrom(ks, eol, 0, TRUE),
     first_func |-> IF bodies = <<>> THEN None ELSE Some(bodies[1].parent)]

\* RangeCollapser::from(ranges).collect()
RECURSIVE CollapseFrom(_, _)
CollapseFrom(src, current) ==
    LET r == RangeCollapserNext(src, current) IN
    IF r.ret.kind = "None" THEN <<>>
    ELSE <<r.ret.val>> \o CollapseFrom(r.src, r.current)

Collapse(ranges) == CollapseFrom(ranges, None)

\* str::lines: the text split at "\n", a final "\n" adding no line, each
\* line without the "\r" that may end it.
RECURSIVE StrLines(_)
StrLines(text) ==
    IF text = <<>> THEN <<>>
    ELSE LET found == FindNewline(text)
             eol_index == IF found.kind = "Some" THEN found.val ELSE Len(text)
             raw == SliceTo(text, eol_index)
             line == IF found.kind = "Some" /\ raw # <<>> /\ raw[Len(raw)] = "\r"
                     THEN SliceTo(raw, Len(raw) - 1) ELSE raw
             rest == IF found.kind = "Some" THEN SliceFrom(text, eol_index + 1)
                     ELSE <<>>
         IN <<line>> \o StrLines(rest)

\* A trim that takes the line feed only.
RangeWithoutLineFeed(lo, hi, c) ==
    IF c[hi] = "\n" THEN <<lo, hi - 1>> ELSE <<lo, hi>>

\* range_without_trailing_eol, on a range of two bytes or more
RangeWithoutTrailingEol(lo, hi, c) ==
    LET tail == SubSeq(c, hi - 1, hi) IN
    IF tail = <<"\r", "\n">> THEN <<lo, hi - 2>>
    ELSE IF tail[2] = "\n" THEN <<lo, hi - 1>>
    ELSE <<lo, hi>>

PlacementMessage ==
    "Global preprocessor definitions must be placed at the top of the file, before all functions"
GlobalGroupMessage == "All top-level #define statements must be grouped together"
FunctionGroupMessage == "All #define statements in each function must be grouped together"
BlankBeforeMessage == "Expected blank line before #define statement(s)"
BlankAfterMessage == "Expected blank line after #define statement(s)"

\* The loop over the global groups: those that start after the first function.
RECURSIVE PlacementLoop(_, _, _)
PlacementLoop(groups, first_func, c) ==
    IF groups = <<>> THEN <<>>
    ELSE LET group == Head(groups) IN
         (IF first_func.kind = "Some" /\ first_func.val.end_byte < group.start_byte
          THEN <<Warning("III:D", PlacementMessage,
                   <<Label("primary",
                           RangeWithoutTrailingEol(group.start_byte, group.end_byte, c),
                           "Macro(s) defined here"),
                     Label("secondary",
                           <<first_func.val.start_byte, first_func.val.end_byte>>,
                           "First function defined here")>>)>>
          ELSE <<>>)
         \o PlacementLoop(Tail(groups), first_func, c)

\* Labels that mark every group as a violation.
RECURSIVE GroupLabelsAllPrimary(_, _, _)
GroupLabelsAllPrimary(groups, i, c) ==
    IF groups = <<>> THEN <<>>
    ELSE <<Label("primary",
                 RangeWithoutTrailingEol(Head(groups).start_byte, Head(groups).end_byte, c),
                 "More #define statements found here")>>
         \o GroupLabelsAllPrimary(Tail(groups), i + 1, c)

\* The labels of the groups: the first secondary, the others primary.
RECURSIVE GroupLabels(_, _, _)
GroupLabels(groups, i, c) ==
    IF groups = <<>> THEN <<>>
    ELSE <<IF i = 0
           THEN Label("secondary",
                      RangeWithoutTrailingEol(Head(groups).start_byte,
                                              Head(groups).end_byte, c),
                      "First group of #define statements found here")
           ELSE Label("primary",
                      RangeWithoutTrailingEol(Head(groups).start_byte,
                                              Head(groups).end_byte, c),
                      "More #define statements found here")>>
         \o GroupLabels(Tail(groups), i + 1, c)

\* skip_while(|define| define.start_byte < function.start_byte())
RECURSIVE SkipBefore(_, _)
SkipBefore(groups, function) ==
    IF groups # <<>> /\ Head(groups).start_byte < function.start_byte
    THEN SkipBefore(Tail(groups), function) ELSE groups

\* take_while(|define| define.end_byte <= function.end_byte())
RECURSIVE TakeInside(_, _)
TakeInside(groups, function) ==
    IF groups # <<>> /\ Head(groups).end_byte <= function.end_byte
    THEN <<Head(groups)>> \o TakeInside(Tail(groups), function) ELSE <<>>

\* The loop over the function bodies.
RECURSIVE FunctionLoop(_, _, _)
FunctionLoop(function_bodies, define_groups, c) ==
    IF function_bodies = <<>> THEN <<>>
    ELSE LET function == Head(function_bodies)
             groups_in_function == TakeInside(SkipBefore(define_groups, function), function)
         IN (IF Len(groups_in_function) > 1
             THEN <<[rule |-> "III:D", message |-> FunctionGroupMessage,
                     notes |-> <<"In function", FunctionDefinitionName(function.parent)>>,
                     labels |-> GroupLabels(groups_in_function, 0, c)]>>
             ELSE <<>>)
            \o FunctionLoop(Tail(function_bodies), define_groups, c)

\* A row of the next line that forgets the groups that end within a line.
EndLineSameRow(define) == define.end_point[1]

\* end_line: if the #define does not end at the start of a line, take the
\* next line
EndLine(define) ==
    define.end_point[1] + (IF define.end_point[2] = 0 THEN 0 ELSE 1)

Ok(v) == [kind |-> "ok", val |-> v]

\* has_blank_before: lines[row - 1] aborts beyond the last line
HasBlankBefore(define, ls) ==
    IF define.start_point[1] = 0 THEN Ok(TRUE)
    ELSE IF define.start_point[1] - 1 >= Len(ls) THEN Abort
    ELSE Ok(ls[define.start_point[1]] = <<>>)

\* has_blank_after: lines.get(end_line).is_none_or(|line| line.is_empty())
HasBlankAfter(define, ls) ==
    EndLine(define) >= Len(ls) \/ ls[EndLine(define) + 1] = <<>>

\* The loop over the groups: the checks of the lines around each.
RECURSIVE BlankLoop(_, _, _)
BlankLoop(define_groups, ls, c) ==
    IF define_groups = <<>> THEN Ok(<<>>)
    ELSE LET define == Head(define_groups)
             print_range == RangeWithoutTrailingEol(define.start_byte, define.end_byte, c)
             has_blank_before == HasBlankBefore(define, ls)
             rest == BlankLoop(Tail(define_groups), ls, c)
         IN IF has_blank_before = Abort \/ rest = Abort THEN Abort
            ELSE Ok((IF ~has_blank_before.val
                     THEN <<Warning("III:D", BlankBeforeMessage,
                                    <<Label("primary", print_range, "")>>)>>
                     ELSE <<>>)
                    \o (IF ~HasBlankAfter(define, ls)
                        THEN <<Warning("III:D", BlankAfterMessage,
                                       <<Label("primary", print_range, "")>>)>>
                        ELSE <<>>)
                    \o rest.val)

\* Rule3d::check: the diagnostics it returns, or Abort
Rule3dCheckResult(t, c) ==
    LET global_define_groups == Collapse(t.global_definitions)
        define_groups == Collapse(t.definitions)
        blank == BlankLoop(define_groups, StrLines(c), c)
    IN IF blank = Abort THEN Abort
       ELSE Ok(PlacementLoop(global_define_groups, t.first_func, c)
               \o (IF Len(global_define_groups) > 1
                   THEN <<Warning("III:D", GlobalGroupMessage,
                                  GroupLabels(global_define_groups, 0, c))>>
                   ELSE <<>>)
               \o FunctionLoop(t.function_bodies, define_groups, c)
               \o blank.val)

InitRule3d ==
    /\ \E ks \in Skeletons, eol \in BOOLEAN :
         /\ (eol \/ ks[Len(ks)] # "blank")
         /\ SourceInfoNew(SkeletonText(ks, eol))
         /\ nodes = TreeOfSkeleton(ks, eol)
    /\ rule_code = "III:D"
    /\ diags = <<>>
    /\ rule_pc = "ready"
    /\ max_diagnostics = None
    /\ RCIdle /\ DrvIdle /\ QIdle /\ FnIdle /\ ClIdle

Rule3dCheck ==
    /\ rule_pc = "ready"
    /\ rule_code = "III:D"
    /\ LET r == Rule3dCheckResult(nodes, code) IN
         /\ diags' = IF r = Abort THEN <<>> ELSE r.val
         /\ rule_pc' = IF r = Abort THEN "aborted" ELSE "done"
    /\ UNCHANGED <<rule_code, nodes, max_diagnostics,
                   rcVars, srcVars, drvVars, qVars, fnVars, clVars>>

NextRule3d == Rule3dCheck

SpecRule3d == InitRule3d /\ [][NextRule3d]_vars

Rule3dDone == rule_code = "III:D" /\ rule_pc = "done"

\* ---- C17
\* The indices of ds at which a group starts: the first #define, and every
\* #define that does not start at the point where its predecessor ends.
GroupStarts(ds) ==
    { i \in 1..Len(ds) : i = 1 \/ ds[i-1].end_point # ds[i].start_point }

\* The index of the last #define of the group that starts at index i.
GroupEndOf(ds, i) ==
    CHOOSE j \in i..Len(ds) :
        /\ \A k \in (i+1)..j : k \notin GroupStarts(ds)
        /\ (j = Len(ds) \/ (j + 1) \in GroupStarts(ds))

\* The groups of adjacent #define statements of ds, in the order of the file.
GroupSeq(ds) ==
    [k \in 1..Cardinality(GroupStarts(ds)) |->
        LET i == CHOOSE b \in GroupStarts(ds) :
                   Cardinality({ c \in GroupStarts(ds) : c <= b }) = k
        IN [first |-> ds[i], last |-> ds[GroupEndOf(ds, i)]]]

GroupsOf(ds) == { GroupSeq(ds)[k] : k \in 1..Len(GroupSeq(ds)) }

\* The row of the group's first line and the row of its last #define line.
FirstRowOf(g) == g.first.start_point[1]
LastRowOf(g) == RowAt(code, g.last.end_byte - 1)

\* The bytes of the group, from its first `#` to the end of its last line,
\* the line separator left out.
PrintRangeOf(g) ==
    <<g.first.start_byte,
      lines[LastRowOf(g) + 1].pos + Len(lines[LastRowOf(g) + 1].text)>>

\* Row r of the file is a blank line.
IsBlankRow(r) == lines[r + 1].text = <<>>

NeedsBlankBefore(g) == FirstRowOf(g) # 0 /\ ~IsBlankRow(FirstRowOf(g) - 1)
NeedsBlankAfter(g) ==
    LastRowOf(g) + 1 < Len(lines) /\ ~IsBlankRow(LastRowOf(g) + 1)

\* The number of diagnostics with the message msg whose first label is on
\* the bytes range.
CountAbout(msg, range) ==
    Cardinality({ k \in 1..Len(diags) :
                    diags[k].message = msg /\ diags[k].labels[1].range = range })

RECURSIVE GroupsInside(_, _)
GroupsInside(gs, function) ==
    IF gs = <<>> THEN <<>>
    ELSE (IF /\ Head(gs).first.start_byte >= function.start_byte
             /\ Head(gs).last.end_byte <= function.end_byte
          THEN <<Head(gs)>> ELSE <<>>)
         \o GroupsInside(Tail(gs), function)

\* The function bodies that hold more than one group, in order.
RECURSIVE BodiesWithGroups(_)
BodiesWithGroups(function_bodies) ==
    IF function_bodies = <<>> THEN <<>>
    ELSE (IF Len(GroupsInside(GroupSeq(nodes.definitions), Head(function_bodies))) > 1
          THEN <<Head(function_bodies)>> ELSE <<>>)
         \o BodiesWithGroups(Tail(function_bodies))

\* The labels of a grouping diagnostic are the groups gs: the first as the
\* only reference, every later one as a violation, in order.
LabelsAreGroups(d, gs) ==
    /\ Len(d.labels) = Len(gs)
    /\ \A k \in 1..Len(gs) :
         /\ d.labels[k].range = PrintRangeOf(gs[k])
         /\ d.labels[k].style = IF k = 1 THEN "secondary" ELSE "primary"

C18_TopLevelReached ==
    /\ Rule3dDone
    /\ Len(GroupSeq(nodes.global_definitions)) = 3
    /\ Len(WithMessage(diags, GlobalGroupMessage)) = 1

(***************************************************************************)
(*                    Rule III:E (src/src/rules/rule03e.rs)                *)
(***************************************************************************)
TrailingWhitespaceMessage == "Line contains trailing whitespace"

\* A start of the span at the start of the line.
TrailingStartAtLine(idx, trimmed_line) == idx

\* start: index + trimmed_line.len()
TrailingStart(idx, trimmed_line) == idx + Len(trimmed_line)

\* Rule03e::check: the loop over the lines
RECURSIVE Rule03eCheckResult(_)
Rule03eCheckResult(ls) ==
    IF ls = <<>> THEN <<>>
    ELSE LET line == Head(ls).text
             idx == Head(ls).pos
             trimmed_line == TrimEnd(line)
         IN (IF Len(trimmed_line) # Len(line)
             THEN LET start == TrailingStart(idx, trimmed_line)
                      end == idx + Len(line)
                  IN <<Diagnostic("III:E", TrailingWhitespaceMessage,
                         <<Span(SourceRange(start, end,
                                            <<idx, LineWidth(trimmed_line)>>,
                                            <<idx, LineWidth(line)>>), "")>>,
                         <<>>)>>
             ELSE <<>>)
            \o Rule03eCheckResult(Tail(ls))

\* Lines with and without whitespace at their end: after a letter, after a
\* wide character, alone on the line, and a tab.
TrailingLines ==
    { <<>>, <<"a">>, <<" ", "a">>, <<"a", " ">>, <<" ">>, <<"a", "\t">>,
      Utf8("W") \o <<" ", " ">> }

InitRule03e ==
    /\ \E ts \in LineSeqs(TrailingLines) : SourceInfoNew(Unlines(ts))
    /\ nodes = <<>>
    /\ rule_code = "III:E"
    /\ diags = <<>>
    /\ rule_pc = "ready"
    /\ max_diagnostics = None
    /\ RCIdle /\ DrvIdle /\ QIdle /\ FnIdle /\ ClIdle

Rule03eCheck ==
    /\ rule_pc = "ready"
    /\ rule_code = "III:E"
    /\ diags' = Rule03eCheckResult(lines)
    /\ rule_pc' = "done"
    /\ UNCHANGED <<rule_code, nodes, max_diagnostics,
                   rcVars, srcVars, drvVars, qVars, fnVars, clVars>>

NextRule03e == Rule03eCheck

SpecRule03e == InitRule03e /\ [][NextRule03e]_vars

Rule03eDone == rule_code = "III:E" /\ rule_pc = "done"

\* ---- C19
\* The number of whitespace bytes at the end of a line.
TrailingLen(text) ==
    CHOOSE k \in 0..Len(text) :
        /\ \A j \in (Len(text) - k + 1)..Len(text) : IsWhitespace(text[j])
        /\ (k = Len(text) \/ ~IsWhitespace(text[Len(text) - k]))

\* The rows (0-based) of the lines that end with whitespace.
OffendingRows == { r \in 0..(Len(lines) - 1) : TrailingLen(lines[r + 1].text) > 0 }

\* The k-th offending row, in the order of the file.
KthOffendingRow(k) ==
    CHOOSE r \in OffendingRows : Cardinality({ q \in OffendingRows : q <= r }) = k

\* C19: the diagnostics of Rule III:E are, in line order, one for each line
\* that differs from its trim_end, and none for any other line, an empty
\* line included; the violation's bytes are [line_start + len(trim_end(line)),
\* line_start + len(line)), which is exactly the trailing whitespace.
C19_TrailingWhitespace ==
    Rule03eDone =>
      /\ Len(diags) = Cardinality(OffendingRows)
      /\ \A k \in 1..Len(diags) :
           LET l == lines[KthOffendingRow(k) + 1]
               b == diags[k].violations[1].range.bytes
           IN /\ Len(diags[k].violations) = 1
              /\ b = <<l.pos + Len(l.text) - TrailingLen(l.text), l.pos + Len(l.text)>>
              /\ b[1] < b[2]
              /\ \A i \in (b[1] + 1)..b[2] : IsWhitespace(code[i])
              /\ (b[1] = l.pos \/ ~IsWhitespace(code[b[1]]))
      /\ \A r \in 0..(Len(lines) - 1) : lines[r + 1].text = <<>> => r \notin OffendingRows

\* The check has run on a file with an empty line between two lines that end
\* with whitespace, and has reported the two, the first line first.
C19_Witness ==
    /\ Rule03eDone
    /\ Len(lines) = 3
    /\ lines[2].text = <<>>
    /\ Len(diags) = 2
    /\ diags[1].violations[1].range.bytes[2] < diags[2].violations[1].range.bytes[1]

\* ---- C20
\* C20: every violation span of Rule III:E is consistent with the source:
\* its start and end rows are the 0-based number of the offending line, its
\* start column is the display width of the trimmed line and its end column
\* the display width of the whole line.
C20_TrailingSpan ==
    Rule03eDone =>
      \A k \in 1..Len(diags) :
        LET r == KthOffendingRow(k)
            l == lines[r + 1]
            v == diags[k].violations[1].range
        IN /\ v.start_pos = <<r, DisplayWidth(SliceTo(l.text, Len(l.text) - TrailingLen(l.text)))>>
           /\ v.end_pos = <<r, DisplayWidth(l.text)>>

\* What the spans do carry: the columns claimed, and as the row the byte
\* offset of the line.
C20_RowIsByteOffset ==
    Rule03eDone =>
      \A k \in 1..Len(diags) :
        LET r == KthOffendingRow(k)
            l == lines[r + 1]
            v == diags[k].violations[1].range
        IN /\ v.start_pos = <<l.pos, DisplayWidth(SliceTo(l.text, Len(l.text) - TrailingLen(l.text)))>>
           /\ v.end_pos = <<l.pos, DisplayWidth(l.text)>>

(***************************************************************************)
(*                    Rule XI:A (src/src/rules/rule11a.rs)                 *)
(***************************************************************************)
\* Bound of the max_diagnostics a rule is constructed with.
MaxLimit == 3

TabsMessage == "Use spaces instead of tabs for indentation"
MixNote == <<"Line mixes spaces and tabs">>

\* format!("{remaining} more lines contain tabs, but those warnings are
\* suppressed to avoid noise."): the number, then the rest of the text
TabsSuppressedNote(remaining) ==
    <<ToString(remaining),
      "more lines contain tabs, but those warnings are suppressed to avoid noise.">>

\* Diagnostic::warning().with_code(c).with_message(message)
\*     .with_labels(labels).with_notes(notes)
WarningWithNotes(c, message, labels, notes) ==
    [rule |-> c, message |-> message, labels |-> labels, notes |-> notes]

\* &line[..(line.len() - line.trim_start().len())]
IndentationOf(line) == SliceTo(line, Len(line) - Len(TrimStart(line)))

\* An indentation that holds a tab.
AnyTab(indentation) == \E i \in 1..Len(indentation) : indentation[i] = "\t"

\* indentation.as_bytes().iter().all(|c| *c == b'\t')
AllTabs(indentation) == \A i \in 1..Len(indentation) : indentation[i] = "\t"

\* line.char_indices().take_while(is_whitespace).filter(tab).map(label),
\* from the offset pos on; every whitespace character of the texts is one byte
RECURSIVE TabLabels(_, _, _)
TabLabels(line, pos, start_pos) ==
    IF pos >= Len(line) \/ ~IsWhitespace(line[pos + 1]) THEN <<>>
    ELSE (IF line[pos + 1] = "\t"
          THEN <<Label("primary", <<start_pos + pos, start_pos + pos + 1>>,
                       "Tab character found here")>>
          ELSE <<>>)
         \o TabLabels(line, pos + 1, start_pos)

\* Rule11a::check: the loop over the lines
RECURSIVE Rule11aLines(_)
Rule11aLines(ls) ==
    IF ls = <<>> THEN <<>>
    ELSE LET line == Head(ls).text
             start_pos == Head(ls).pos
             indentation == IndentationOf(line)
             labels == TabLabels(line, 0, start_pos)
         IN (IF indentation = <<>> THEN <<>>
             ELSE IF AllTabs(indentation)
             THEN <<WarningWithNotes("XI:A", TabsMessage,
                      <<Label("primary", <<start_pos, start_pos + Len(indentation)>>,
                              "Indentation uses tabs")>>, <<>>)>>
             ELSE IF labels # <<>>
             THEN <<WarningWithNotes("XI:A", TabsMessage, labels, <<MixNote>>)>>
             ELSE <<>>)
            \o Rule11aLines(Tail(ls))

\* if diagnostics.len() >= max
LimitReached(len, max) == len >= max

\* Rule11a::check: the limit on the number of diagnostics. truncate(max),
\* then last_mut().unwrap(), which panics on an empty Vec.
Rule11aLimit(max, diagnostics) ==
    IF max.kind = "Some" /\ LimitReached(Len(diagnostics), max.val)
    THEN LET remaining == Len(diagnostics) - max.val
             kept == SubSeq(diagnostics, 1, max.val)
         IN IF kept = <<>> THEN Abort
            ELSE Ok([kept EXCEPT ![Len(kept)].notes =
                        Append(@, TabsSuppressedNote(remaining))])
    ELSE Ok(diagnostics)

\* Rule11a::check
Rule11aCheckResult(max, ls) == Rule11aLimit(max, Rule11aLines(ls))

\* Indented and unindented lines: tabs only, spaces only, tabs among spaces,
\* a tab after the indentation, lines of whitespace only.
IndentLines ==
    { <<>>, <<"a">>, <<"\t", "a">>, <<"\t", "\t", "a">>, <<" ", " ", "a">>,
      <<" ", "\t", "a">>, <<"\t", " ", "\t", "a">>, <<"a", "\t">>,
      <<" ", "a", "\t">>, <<"\t">>, <<" ">> }

\* Rule11a::new(max_diagnostics)
Limits(lowest) == {None} \cup { Some(n) : n \in lowest..MaxLimit }

InitRule11a ==
    /\ \E ts \in LineSeqs(IndentLines) : SourceInfoNew(Unlines(ts))
    /\ max_diagnostics \in Limits(0)
    /\ nodes = <<>>
    /\ rule_code = "XI:A"
    /\ diags = <<>>
    /\ rule_pc = "ready"
    /\ RCIdle /\ DrvIdle /\ QIdle /\ FnIdle /\ ClIdle

Rule11aCheck ==
    /\ rule_pc = "ready"
    /\ rule_code = "XI:A"
    /\ LET r == Rule11aCheckResult(max_diagnostics, lines)
       IN IF r = Abort
          THEN diags' = <<>> /\ rule_pc' = "aborted"
          ELSE diags' = r.val /\ rule_pc' = "done"
    /\ UNCHANGED <<rule_code, nodes, max_diagnostics,
                   rcVars, srcVars, drvVars, qVars, fnVars, clVars>>

NextRule11a == Rule11aCheck

SpecRule11a == InitRule11a /\ [][NextRule11a]_vars

Rule11aDone == rule_code = "XI:A" /\ rule_pc = "done"

\* ---- C21
\* The number of whitespace bytes at the start of a line.
LeadingLen(text) ==
    CHOOSE k \in 0..Len(text) :
        /\ \A j \in 1..k : IsWhitespace(text[j])
        /\ (k = Len(text) \/ ~IsWhitespace(text[k + 1]))

\* The offsets in a line of the tabs of its leading whitespace.
LeadingTabs(text) == { i \in 0..(LeadingLen(text) - 1) : text[i + 1] = "\t" }

\* The k-th of them, from the left.
KthLeadingTab(text, k) ==
    CHOOSE i \in LeadingTabs(text) :
        Cardinality({ j \in LeadingTabs(text) : j <= i }) = k

\* What a diagnostic shows: the ranges of its labels, whether all are
\* primary, and its notes.
ShapeOf(d) ==
    [ranges |-> [i \in 1..Len(d.labels) |-> d.labels[i].range],
     primary |-> \A i \in 1..Len(d.labels) : d.labels[i].style = "primary",
     notes |-> d.notes]

\* A line whose leading whitespace is tabs only: one diagnostic, one span
\* over all of it.
AllTabsShape(l) ==
    [ranges |-> <<<<l.pos, l.pos + LeadingLen(l.text)>>>>, primary |-> TRUE,
     notes |-> <<>>]

\* One diagnostic for each tab of the leading whitespace of a line, with one
\* span on that tab.
ShapesPerTab(l) ==
    IF LeadingTabs(l.text) = {} THEN <<>>
    ELSE IF Cardinality(LeadingTabs(l.text)) = LeadingLen(l.text)
    THEN <<AllTabsShape(l)>>
    ELSE [k \in 1..Cardinality(LeadingTabs(l.text)) |->
            [ranges |-> <<<<l.pos + KthLeadingTab(l.text, k),
                           l.pos + KthLeadingTab(l.text, k) + 1>>>>,
             primary |-> TRUE, notes |-> <<MixNote>>]]

\* One diagnostic for a line, with one span on each tab of its leading
\* whitespace.
ShapesPerLine(l) ==
    IF LeadingTabs(l.text) = {} THEN <<>>
    ELSE IF Cardinality(LeadingTabs(l.text)) = LeadingLen(l.text)
    THEN <<AllTabsShape(l)>>
    ELSE <<[ranges |-> [k \in 1..Cardinality(LeadingTabs(l.text)) |->
                          <<l.pos + KthLeadingTab(l.text, k),
                            l.pos + KthLeadingTab(l.text, k) + 1>>],
            primary |-> TRUE, notes |-> <<MixNote>>]>>

DiagShapes == [k \in 1..Len(diags) |-> ShapeOf(diags[k])]

\* C21 as stated: without a limit, the diagnostics of Rule XI:A are, line by
\* line: one with a single span over the whole leading whitespace when it is
\* tabs only; one per tab of the leading whitespace, each with a single span
\* on that tab and the note "Line mixes spaces and tabs", when it mixes tabs
\* with other whitespace; none when it holds no tab.
C21_DiagnosticPerTab ==
    (Rule11aDone /\ max_diagnostics = None) =>
      DiagShapes = Flatten([r \in 1..Len(lines) |-> ShapesPerTab(lines[r])])

\* C21 amended: as above, but leading whitespace that mixes tabs with other
\* whitespace gives ONE diagnostic for the line, with one primary span on
\* each tab of the leading whitespace, in order, and the note.
C21_DiagnosticPerLine ==
    (Rule11aDone /\ max_diagnostics = None) =>
      DiagShapes = Flatten([r \in 1..Len(lines) |-> ShapesPerLine(lines[r])])

\* The check has run without a limit on a file that has a line indented by
\* tabs only and a line whose indentation holds two tabs and a space.
C21_Witness ==
    /\ Rule11aDone /\ max_diagnostics = None
    /\ \E r \in 1..Len(lines) : lines[r].text = <<"\t", "\t", "a">>
    /\ \E r \in 1..Len(lines) : lines[r].text = <<"\t", " ", "\t", "a">>
    /\ \E k \in 1..Len(diags) : Len(diags[k].labels) = 2

\* ---- C22
\* The diagnostics the lines give before the limit applies, as the claims
\* describe them.
FoundShapes == Flatten([r \in 1..Len(lines) |-> ShapesPerLine(lines[r])])

Min(a, b) == IF a <= b THEN a ELSE b

\* The shapes found, cut to the first n, the last of them with the
\* suppression note for `suppressed` lines.
ShapesWithNote(n, suppressed) ==
    [i \in 1..n |->
       IF i = n
       THEN [FoundShapes[i] EXCEPT !.notes = Append(@, TabsSuppressedNote(suppressed))]
       ELSE FoundShapes[i]]

Rule11aReturned == rule_code = "XI:A" /\ rule_pc \in {"done", "aborted"}

\* C22: with an upper bound N >= 0 and k diagnostics found, the check of
\* Rule XI:A never aborts and returns the first min(k, N) diagnostics in line
\* order; the last one kept gains the suppression note, which states k - N,
\* only when k > N; when k <= N the diagnostics are returned unchanged.
C22_Limit ==
    (Rule11aReturned /\ max_diagnostics # None) =>
      LET N == max_diagnostics.val
          k == Len(FoundShapes)
      IN /\ rule_pc = "done"
         /\ DiagShapes = IF k > N THEN ShapesWithNote(N, k - N)
                         ELSE FoundShapes

\* What the check does with an upper bound: it aborts when N = 0, and
\* otherwise the note is added as soon as the bound is reached (k >= N),
\* stating k - N, which is 0 when k = N.
C22_LimitReached ==
    (Rule11aReturned /\ max_diagnostics # None) =>
      LET N == max_diagnostics.val
          k == Len(FoundShapes)
      IN IF N = 0 THEN rule_pc = "aborted"
         ELSE /\ rule_pc = "done"
              /\ DiagShapes = IF k >= N THEN ShapesWithNote(N, k - N)
                              ELSE FoundShapes

(***************************************************************************)
(*                    Rule XI:B (src/src/rules/rule11b.rs)                 *)
(***************************************************************************)
DosMessage == "Line contains DOS-style ending"
VimNote == <<"See", ":h 'fileformat'", "in Vim for info on how to fix this">>

\* format!("{} more lines contain DOS endings, but those warnings are
\* suppressed to avoid noise.", dos_lines.count())
DosSuppressedNote(count) ==
    <<ToString(count),
      "more lines contain DOS endings, but those warnings are suppressed to avoid noise.">>

\* code_str.split('\n').map(..): every segment with the offset of its start
RECURSIVE SplitNewline(_, _)
SplitNewline(s, next_line_start_pos) ==
    LET found == FindNewline(s) IN
    IF found.kind = "None"
    THEN <<[text |-> s, pos |-> next_line_start_pos]>>
    ELSE <<[text |-> SliceTo(s, found.val), pos |-> next_line_start_pos]>>
         \o SplitNewline(SliceFrom(s, found.val + 1),
                         next_line_start_pos + found.val + 1)

\* .filter(|(line, _pos)| line.ends_with('\r'))
RECURSIVE DosLines(_)
DosLines(segments) ==
    IF segments = <<>> THEN <<>>
    ELSE LET line == Head(segments).text
         IN (IF line # <<>> /\ line[Len(line)] = "\r" THEN <<Head(segments)>> ELSE <<>>)
            \o DosLines(Tail(segments))

\* let cr_pos = start_pos + line.len() - 1
CrPos(start_pos, line) == start_pos + Len(line) - 1

\* A limit that stops the loop one diagnostic late.
AtLimitExceeded(len, max) == len = max + 1

\* self.max_diagnostics.is_some_and(|max| diagnostics.len() == max.get())
AtLimit(len, max) == len = max

\* Rule11b::check: the loop over the lines that end with '\r'
RECURSIVE Rule11bLoop(_, _, _)
Rule11bLoop(max, dos_lines, diagnostics) ==
    IF dos_lines = <<>> THEN diagnostics
    ELSE LET line == Head(dos_lines).text
             start_pos == Head(dos_lines).pos
             cr_pos == CrPos(start_pos, line)
             pushed == Append(diagnostics,
                          WarningWithNotes("XI:B", DosMessage,
                              <<Label("primary", <<cr_pos, cr_pos + 1>>, "")>>,
                              <<VimNote>>))
         IN IF max.kind = "Some" /\ AtLimit(Len(pushed), max.val)
            THEN [pushed EXCEPT ![Len(pushed)].notes =
                     Append(@, DosSuppressedNote(Len(Tail(dos_lines))))]
            ELSE Rule11bLoop(max, Tail(dos_lines), pushed)

\* Rule11b::check
Rule11bCheckResult(max, c) == Rule11bLoop(max, DosLines(SplitNewline(c, 0)), <<>>)

\* Segments with and without a carriage return, at their end and elsewhere.
CrSegments ==
    { <<>>, <<"a">>, <<"a", "\r">>, <<"\r">>, <<"\r", "a">>, <<"a", "\r", "\r">> }

\* The text whose '\n'-separated segments are ts.
RECURSIVE JoinNewline(_)
JoinNewline(ts) ==
    IF Len(ts) = 1 THEN Head(ts)
    ELSE Head(ts) \o <<"\n">> \o JoinNewline(Tail(ts))

\* The texts of at most MaxLines lines and what follows the last of them.
CrTexts ==
    { JoinNewline(ts) : ts \in UNION { [1..n -> CrSegments] : n \in 1..(MaxLines + 1) } }

InitRule11b ==
    /\ \E c \in CrTexts : SourceInfoNew(c)
    /\ max_diagnostics \in Limits(1)
    /\ nodes = <<>>
    /\ rule_code = "XI:B"
    /\ diags = <<>>
    /\ rule_pc = "ready"
    /\ RCIdle /\ DrvIdle /\ QIdle /\ FnIdle /\ ClIdle

Rule11bCheck ==
    /\ rule_pc = "ready"
    /\ rule_code = "XI:B"
    /\ diags' = Rule11bCheckResult(max_diagnostics, code)
    /\ rule_pc' = "done"
    /\ UNCHANGED <<rule_code, nodes, max_diagnostics,
                   rcVars, srcVars, drvVars, qVars, fnVars, clVars>>

NextRule11b == Rule11bCheck

SpecRule11b == InitRule11b /\ [][NextRule11b]_vars

Rule11bDone == rule_code = "XI:B" /\ rule_pc = "done"

\* ---- C23
\* The offsets of the carriage returns that end a '\n'-separated segment.
CrEnds ==
    { i \in 0..(Len(code) - 1) :
        /\ code[i + 1] = "\r"
        /\ (i + 1 = Len(code) \/ code[i + 2] = "\n") }

KthCrEnd(k) == CHOOSE i \in CrEnds : Cardinality({ j \in CrEnds : j <= i }) = k

\* C23: Rule XI:B emits, in source order, one diagnostic for each
\* '\n'-separated segment that ends with '\r', its only span the byte of that
\* '\r'; with an upper bound N >= 1 and k such segments it emits the first
\* min(k, N), and when k > N the last one carries a note that begins with
\* k - N.
C23_DosEndings ==
    Rule11bDone =>
      LET k == Cardinality(CrEnds)
          n == IF max_diagnostics = None THEN k ELSE Min(k, max_diagnostics.val)
      IN /\ Len(diags) = n
         /\ \A j \in 1..n :
              /\ Len(diags[j].labels) = 1
              /\ diags[j].labels[1].range = <<KthCrEnd(j), KthCrEnd(j) + 1>>
              /\ code[KthCrEnd(j) + 1] = "\r"
         /\ (max_diagnostics # None /\ k > max_diagnostics.val) =>
              \E i \in 1..Len(diags[n].notes) :
                  diags[n].notes[i][1] = ToString(k - max_diagnostics.val)

\* The check has run with the upper bound 1 on three lines that end with
\* "\r\n", and has returned one diagnostic whose second note begins with "2".
C23_Witness ==
    /\ Rule11bDone
    /\ max_diagnostics = Some(1)
    /\ code = <<"a", "\r", "\n", "a", "\r", "\n", "a", "\r", "\n">>
    /\ Len(diags) = 1
    /\ diags[1].notes[2][1] = "2"

(***************************************************************************)
(*                    Rule XII:A (src/src/rules/rule12a.rs)                *)
(***************************************************************************)
\* Bound of the declarators of a declaration.
MaxDeclarators == 3

MultipleMessage == "No more than one variable may be defined on a single line."

\* What a declarator is, by the kinds met from it along the `declarator`
\* field: `x`, `f(void)`, `*f(void)`.
DeclaratorChains ==
    { <<"identifier">>,
      <<"function_declarator", "identifier">>,
      <<"pointer_declarator", "function_declarator", "identifier">> }

\* The declaration nodes of a tree: inside a function or at file scope, the
\* text of the first child, and the children in the field `declarator`.
DeclarationShapes ==
    { [in_function |-> f, first_child |-> c, chains |-> ds] :
        f \in BOOLEAN, c \in {"extern", "int"},
        ds \in UNION { [1..n -> DeclaratorChains] : n \in 0..MaxDeclarators } }

\* The declaration of shape d that is the i-th of the file, its declarators
\* one after the other in the text.
DeclarationNode(d, i) ==
    LET base == (i - 1) * 2 * (MaxDeclarators + 1) IN
    [kind |-> "declaration", in_function |-> d.in_function,
     first_child |-> d.first_child, start_byte |-> base,
     declarators |-> [j \in 1..Len(d.chains) |->
                        [chain |-> d.chains[j],
                         byte_range |-> <<base + 2 * j, base + 2 * j + 1>>]]]

\* The trees of one declaration and of two.
DeclarationFiles ==
    { <<DeclarationNode(d, 1)>> : d \in DeclarationShapes }
    \cup { <<DeclarationNode(d[1], 1), DeclarationNode(d[2], 2)>> :
             d \in DeclarationShapes \X DeclarationShapes }

\* QUERY_STR through QueryHelper::for_each_capture: a declaration inside a
\* function is captured as @declaration; one outside any function whose
\* first child is not the text "extern" as @declaration and @first-child.
RECURSIVE DeclarationCaptures(_)
DeclarationCaptures(declarations) ==
    IF declarations = <<>> THEN <<>>
    ELSE LET n == Head(declarations)
         IN (IF n.in_function
             THEN <<[label |-> "declaration", node |-> n]>>
             ELSE IF n.first_child # "extern"
             THEN <<[label |-> "declaration", node |-> n],
                    [label |-> "first-child", node |-> n.first_child]>>
             ELSE <<>>)
            \o DeclarationCaptures(Tail(declarations))

\* is_function_declaration: the while loop from a node whose kinds along the
\* `declarator` field are `chain`
RECURSIVE FunctionDeclaratorOnChain(_)
FunctionDeclaratorOnChain(chain) ==
    IF chain = <<>> THEN FALSE
    ELSE IF Head(chain) = "function_declarator" THEN TRUE
    ELSE FunctionDeclaratorOnChain(Tail(chain))

\* is_function_declaration(declaration_node): child_by_field_name gives the
\* first child in the field
IsFunctionDeclaration(declaration_node) ==
    FunctionDeclaratorOnChain(
        <<declaration_node.kind>>
        \o (IF declaration_node.declarators = <<>> THEN <<>>
            ELSE declaration_node.declarators[1].chain))

\* A test that fires on a single declarator.
AnyDeclarator(n_declarators) == n_declarators >= 1

\* if n_declarators > 1
SeveralDeclarators(n_declarators) == n_declarators > 1

\* Rule12a::check: the closure given to for_each_capture
Rule12aCapture(capture) ==
    IF capture.label = "declaration"
    THEN IF IsFunctionDeclaration(capture.node) THEN <<>>
         ELSE LET declarators == capture.node.declarators
                  n_declarators == Len(declarators)
              IN IF SeveralDeclarators(n_declarators)
                 THEN <<Warning("XII:A", MultipleMessage,
                          <<Label("secondary", declarators[1].byte_range,
                                  "First definition here")>>
                          \o [j \in 1..(n_declarators - 1) |->
                                Label("primary", declarators[j + 1].byte_range,
                                      "Additional definition here")])>>
                 ELSE <<>>
    ELSE <<>>

RECURSIVE Rule12aCheckResult(_)
Rule12aCheckResult(captures) ==
    IF captures = <<>> THEN <<>>
    ELSE Rule12aCapture(Head(captures)) \o Rule12aCheckResult(Tail(captures))

InitRule12a ==
    /\ nodes \in DeclarationFiles
    /\ rule_code = "XII:A"
    /\ diags = <<>>
    /\ rule_pc = "ready"
    /\ max_diagnostics = None
    /\ RCIdle /\ SrcIdle /\ DrvIdle /\ QIdle /\ FnIdle /\ ClIdle

Rule12aCheck ==
    /\ rule_pc = "ready"
    /\ rule_code = "XII:A"
    /\ diags' = Rule12aCheckResult(DeclarationCaptures(nodes))
    /\ rule_pc' = "done"
    /\ UNCHANGED <<rule_code, nodes, max_diagnostics,
                   rcVars, srcVars, drvVars, qVars, fnVars, clVars>>

NextRule12a == Rule12aCheck

SpecRule12a == InitRule12a /\ [][NextRule12a]_vars

Rule12aDone == rule_code = "XII:A" /\ rule_pc = "done"

\* ---- C24
\* A function_declarator can be reached from the declaration through the
\* field `declarator`.
ReachesFunctionDeclarator(n) ==
    \E j \in 1..Len(n.declarators) :
        \E i \in 1..Len(n.declarators[j].chain) :
            n.declarators[j].chain[i] = "function_declarator"

\* The declarations the rule is about.
InScope(n) == n.in_function \/ n.first_child # "extern"

\* The diagnostics about the declaration n: those with a label inside it.
AboutDeclaration(n) ==
    { k \in 1..Len(diags) :
        \E i \in 1..Len(diags[k].labels) :
            \E j \in 1..Len(n.declarators) :
                diags[k].labels[i].range = n.declarators[j].byte_range }

\* The declarations with several declarators, none of them a function, that
\* the rule is about: their indexes in file order.
Offenders ==
    { r \in 1..Len(nodes) :
        /\ InScope(nodes[r]) /\ ~ReachesFunctionDeclarator(nodes[r])
        /\ Len(nodes[r].declarators) > 1 }

\* C24: for a declaration inside a function, or at file scope with a first
\* child other than `extern`, from which no function_declarator is reachable
\* through the field `declarator`, Rule XII:A emits a diagnostic iff it has
\* more than one declarator: one reference span on the first declarator and
\* one violation span on each later one, in order. Every declaration gets at
\* most one diagnostic, and a file-scope `extern` declaration none; the
\* diagnostics follow the order of the file.
C24_MultipleDeclarators ==
    Rule12aDone =>
      /\ \A r \in 1..Len(nodes) :
           LET n == nodes[r]
               ds == n.declarators
           IN /\ Cardinality(AboutDeclaration(n)) <= 1
              /\ (~n.in_function /\ n.first_child = "extern") => AboutDeclaration(n) = {}
              /\ (InScope(n) /\ ~ReachesFunctionDeclarator(n)) =>
                    /\ (AboutDeclaration(n) # {}) <=> (Len(ds) > 1)
                    /\ \A k \in AboutDeclaration(n) :
                         /\ Len(diags[k].labels) = Len(ds)
                         /\ diags[k].labels[1].style = "secondary"
                         /\ \A j \in 1..Len(ds) :
                              /\ diags[k].labels[j].range = ds[j].byte_range
                              /\ (j > 1 => diags[k].labels[j].style = "primary")
      /\ \A r1, r2 \in Offenders :
           r1 < r2 => \A k1 \in AboutDeclaration(nodes[r1]) :
                         \A k2 \in AboutDeclaration(nodes[r2]) : k1 < k2

\* The check has run on a file-scope `extern` declaration of three variables
\* followed by a declaration of three variables inside a function, and has
\* reported the second only.
C24_Witness ==
    /\ Rule12aDone
    /\ Len(nodes) = 2
    /\ ~nodes[1].in_function /\ nodes[1].first_child = "extern"
    /\ Len(nodes[1].declarators) = 3 /\ ~ReachesFunctionDeclarator(nodes[1])
    /\ nodes[2].in_function
    /\ Len(nodes[2].declarators) = 3 /\ ~ReachesFunctionDeclarator(nodes[2])
    /\ Len(diags) = 1
    /\ Len(diags[1].labels) = 3

(***************************************************************************)
(*                    Rule I:D (src/src/rules/rule1d.rs)                   *)
(***************************************************************************)
\* Bound of the top-level items of a file.
MaxItems == 4

PrefixMessage == "Global variables must be prefixed with `g_'"
TopLevelMessage == "All top-level declarations must come before function definitions"

\* The top-level items of a file: a function definition, a declaration of a
\* variable named g_x, a declaration of a variable named x.
ItemKinds == {"function", "declaration", "declaration_no_g"}

ItemFiles == UNION { [1..n -> ItemKinds] : n \in 0..MaxItems }

\* The node of the i-th item, and the identifier it declares.
ItemNode(i) == [byte_range |-> <<(i - 1) * MaxItems, (i - 1) * MaxItems + 3>>]
ItemIdentifier(i) == [byte_range |-> <<(i - 1) * MaxItems + 1, (i - 1) * MaxItems + 2>>]

\* QUERY_STR through QueryHelper::for_each_capture: the captures of the
\* items from the i-th on, in the order of their positions in the file.
RECURSIVE ItemCaptures(_, _)
ItemCaptures(items, i) ==
    IF i > Len(items) THEN <<>>
    ELSE (CASE items[i] = "function" ->
                 <<[name |-> "function", node |-> ItemNode(i)]>>
            [] items[i] = "declaration" ->
                 <<[name |-> "declaration.top_level", node |-> ItemNode(i)]>>
            [] items[i] = "declaration_no_g" ->
                 <<[name |-> "declaration.top_level", node |-> ItemNode(i)],
                   [name |-> "global.no_g_prefix", node |-> ItemIdentifier(i)]>>)
         \o ItemCaptures(items, i + 1)

\* Rule1d::check: the closure given to for_each_capture, from the state
\* first_function_position and diagnostics
RECURSIVE Rule1dLoop(_, _, _)
Rule1dLoop(captures, first_function_position, diagnostics) ==
    IF captures = <<>> THEN diagnostics
    ELSE LET name == Head(captures).name
             capture == Head(captures)
         IN CASE name = "function" ->
                   Rule1dLoop(Tail(captures), Some(capture.node.byte_range), diagnostics)
              [] name = "declaration.top_level" /\ first_function_position = None ->
                   Rule1dLoop(Tail(captures), first_function_position, diagnostics)
              [] name = "declaration.top_level" /\ first_function_position # None ->
                   Rule1dLoop(Tail(captures), first_function_position,
                       Append(diagnostics,
                           Warning("I:D", TopLevelMessage,
                               <<Label("primary", capture.node.byte_range,
                                       "Declaration occurs here"),
                                 Label("secondary", first_function_position.val,
                                       "First function defined here")>>)))
              [] name = "global.no_g_prefix" ->
                   Rule1dLoop(Tail(captures), first_function_position,
                       Append(diagnostics,
                           Warning("I:D", PrefixMessage,
                               <<Label("primary", capture.node.byte_range,
                                       "Variable declared here"),
                                 Label("secondary", capture.node.byte_range,
                                       "Perhaps you meant `g_{}'")>>)))

\* Rule1d::check
Rule1dCheckResult(items) == Rule1dLoop(ItemCaptures(items, 1), None, <<>>)

InitRule1d ==
    /\ nodes \in ItemFiles
    /\ rule_code = "I:D"
    /\ diags = <<>>
    /\ rule_pc = "ready"
    /\ max_diagnostics = None
    /\ RCIdle /\ SrcIdle /\ DrvIdle /\ QIdle /\ FnIdle /\ ClIdle

Rule1dCheck ==
    /\ rule_pc = "ready"
    /\ rule_code = "I:D"
    /\ diags' = Rule1dCheckResult(nodes)
    /\ rule_pc' = "done"
    /\ UNCHANGED <<rule_code, nodes, max_diagnostics,
                   rcVars, srcVars, drvVars, qVars, fnVars, clVars>>

NextRule1d == Rule1dCheck

SpecRule1d == InitRule1d /\ [][NextRule1d]_vars

Rule1dDone == rule_code = "I:D" /\ rule_pc = "done"

\* ---- C25
IsFunctionItem(i) == nodes[i] = "function"
IsDeclarationItem(i) == nodes[i] \in {"declaration", "declaration_no_g"}

\* The diagnostics that report the i-th item as a misplaced declaration.
Reports(i) ==
    { k \in 1..Len(diags) :
        /\ diags[k].message = TopLevelMessage
        /\ diags[k].labels[1].range = ItemNode(i).byte_range }

FunctionsBefore(i) == { f \in 1..(i - 1) : IsFunctionItem(f) }

FirstFunction == CHOOSE f \in 1..Len(nodes) :
                     IsFunctionItem(f) /\ FunctionsBefore(f) = {}

LastFunctionBefore(i) == CHOOSE f \in FunctionsBefore(i) :
                             \A g \in FunctionsBefore(i) : g <= f

\* C25: Rule I:D reports a top-level declaration iff at least one top-level
\* function definition precedes it, and the reference span of every such
\* diagnostic is the first function definition of the file, also when other
\* function definitions lie between it and the declaration.
C25_FirstFunction ==
    Rule1dDone =>
      \A i \in 1..Len(nodes) :
        IsDeclarationItem(i) =>
          /\ (Reports(i) # {}) <=> (FunctionsBefore(i) # {})
          /\ \A k \in Reports(i) :
               /\ diags[k].labels[2].style = "secondary"
               /\ diags[k].labels[2].range = ItemNode(FirstFunction).byte_range

\* What the reference span is: the last function definition before the
\* declaration.
C25_LastFunction ==
    Rule1dDone =>
      \A i \in 1..Len(nodes) :
        IsDeclarationItem(i) =>
          /\ (Reports(i) # {}) <=> (FunctionsBefore(i) # {})
          /\ Cardinality(Reports(i)) <= 1
          /\ \A k \in Reports(i) :
               /\ diags[k].labels[2].style = "secondary"
               /\ diags[k].labels[2].range = ItemNode(LastFunctionBefore(i)).byte_range

(***************************************************************************)
(*          guess_lower_snake_case (src/src/rules/rule1a.rs)               *)
(***************************************************************************)
\* Bound of the names, in characters.
MaxName == 4

\* The characters of the names: a lowercase letter, an uppercase letter, an
\* underscore and a digit; "b" is the lowercase of "B".
NameChars == {"a", "B", "_", "1"}

Names == UNION { [1..n -> NameChars] : n \in 0..MaxName }

\* char::is_uppercase, char::is_lowercase, char::to_lowercase
IsUppercase(c) == c = "B"
IsLowercase(c) == c \in {"a", "b"}
ToLowercase(c) == IF c = "B" THEN <<"b">> ELSE <<c>>

\* guess_lower_snake_case: the for loop from the character i (counted from
\* 0) on, with the state last_was_lower
RECURSIVE SnakeLoop(_, _, _)
SnakeLoop(name, i, last_was_lower) ==
    IF i >= Len(name) THEN <<>>
    ELSE LET c == name[i + 1] IN
         IF IsUppercase(c)
         THEN (IF i # 0 /\ last_was_lower THEN <<"_">> ELSE <<>>)
              \o ToLowercase(c) \o SnakeLoop(name, i + 1, FALSE)
         ELSE <<c>> \o SnakeLoop(name, i + 1,
                                 IF IsLowercase(c) THEN TRUE ELSE last_was_lower)

\* guess_lower_snake_case(name)
GuessLowerSnakeCase(name) == SnakeLoop(name, 0, FALSE)

InitSnake ==
    /\ fn_name = "guess_lower_snake_case"
    /\ fn_arg \in Names
    /\ fn_ret = None
    /\ RCIdle /\ SrcIdle /\ DrvIdle /\ QIdle /\ RuleIdle /\ ClIdle

CallGuessLowerSnakeCase ==
    /\ fn_name = "guess_lower_snake_case"
    /\ fn_ret = None
    /\ fn_ret' = Some(GuessLowerSnakeCase(fn_arg))
    /\ UNCHANGED <<fn_name, fn_arg, rcVars, srcVars, drvVars, qVars, ruleVars, clVars>>

NextSnake == CallGuessLowerSnakeCase

SpecSnake == InitSnake /\ [][NextSnake]_vars

SnakeReturned == fn_name = "guess_lower_snake_case" /\ fn_ret # None

\* ---- C26
\* The name with every uppercase character lowercased and an underscore
\* before each uppercase character that immediately follows a lowercase one.
SnakeAfterLowercase(name) ==
    Flatten([i \in 1..Len(name) |->
        IF IsUppercase(name[i])
        THEN (IF i > 1 /\ IsLowercase(name[i - 1]) THEN <<"_">> ELSE <<>>)
             \o ToLowercase(name[i])
        ELSE <<name[i]>>])

\* The last cased character before position i is a lowercase one.
LastCasedIsLower(name, i) ==
    \E j \in 1..(i - 1) :
        /\ IsLowercase(name[j])
        /\ \A m \in (j + 1)..(i - 1) : ~IsUppercase(name[m])

\* The name with every uppercase character lowercased and an underscore
\* before each uppercase character whose nearest cased character to the
\* left is a lowercase one.
SnakeAfterLastCased(name) ==
    Flatten([i \in 1..Len(name) |->
        IF IsUppercase(name[i])
        THEN (IF LastCasedIsLower(name, i) THEN <<"_">> ELSE <<>>)
             \o ToLowercase(name[i])
        ELSE <<name[i]>>])

\* C26: guess_lower_snake_case returns the name with every uppercase
\* character lowercased and an underscore inserted exactly before each
\* uppercase character that immediately follows a lowercase character, and
\* nowhere else; the result has no uppercase character and the function
\* leaves its own result unchanged.
C26_SnakeCase ==
    SnakeReturned =>
      /\ fn_ret.val = SnakeAfterLowercase(fn_arg)
      /\ \A i \in 1..Len(fn_ret.val) : ~IsUppercase(fn_ret.val[i])
      /\ GuessLowerSnakeCase(fn_ret.val) = fn_ret.val

\* What the function returns: the underscore also comes before an uppercase
\* character that follows a lowercase one at a distance, with only
\* characters without case (an underscore, a digit) in between.
C26_SinceLastCased ==
    SnakeReturned =>
      /\ fn_ret.val = SnakeAfterLastCased(fn_arg)
      /\ \A i \in 1..Len(fn_ret.val) : ~IsUppercase(fn_ret.val[i])
      /\ GuessLowerSnakeCase(fn_ret.val) = fn_ret.val

(***************************************************************************)
(*               indent_width (src/src/helpers/mod.rs)                     *)
(***************************************************************************)
\* Bound of the lines given to indent_width, in characters.
MaxIndent == 3

\* The characters of those lines: a letter, a space, a tab, a carriage
\* return, a form feed, and U+3000, the ideographic space.
IndentChars == {"a", " ", "\t", "\r", "\f", "U+3000"}

IndentInputs == UNION { [1..n -> IndentChars] : n \in 0..MaxIndent }

\* char::is_whitespace
CharIsWhitespace(c) == c \in {" ", "\t", "\r", "\f", "U+3000"}

\* char::is_control
CharIsControl(c) == c \in {"\t", "\r", "\f"}

\* UnicodeWidthChar::width: None for a control character
WidthOfChar(c) ==
    IF CharIsControl(c) THEN None
    ELSE IF c = "U+3000" THEN Some(2)
    ELSE Some(1)

\* Columns of a tab.
TabColumns == 8

\* The closure of map: '\t' => 8, other => other.width().unwrap()
ColumnsOf(c) ==
    IF c = "\t" THEN Ok(TabColumns)
    ELSE IF WidthOfChar(c) = None THEN Abort
    ELSE Ok(WidthOfChar(c).val)

\* indent_width: take_while(is_whitespace).map(..).sum(), from a line on
RECURSIVE IndentWidthFrom(_)
IndentWidthFrom(line) ==
    IF line = <<>> \/ ~CharIsWhitespace(Head(line)) THEN Ok(0)
    ELSE LET w == ColumnsOf(Head(line))
             rest == IndentWidthFrom(Tail(line))
         IN IF w = Abort \/ rest = Abort THEN Abort
            ELSE Ok(w.val + rest.val)

\* indent_width(line)
IndentWidth(line) == IndentWidthFrom(line)

InitIndentWidth ==
    /\ fn_name = "indent_width"
    /\ fn_arg \in IndentInputs
    /\ fn_ret = None
    /\ RCIdle /\ SrcIdle /\ DrvIdle /\ QIdle /\ RuleIdle /\ ClIdle

CallIndentWidth ==
    /\ fn_name = "indent_width"
    /\ fn_ret = None
    /\ fn_ret' = Some(IndentWidth(fn_arg))
    /\ UNCHANGED <<fn_name, fn_arg, rcVars, srcVars, drvVars, qVars, ruleVars, clVars>>

NextIndentWidth == CallIndentWidth

SpecIndentWidth == InitIndentWidth /\ [][NextIndentWidth]_vars

IndentWidthReturned == fn_name = "indent_width" /\ fn_ret # None

\* ---- C27
\* The length of the leading run of whitespace characters of a line.
LeadingRun(line) ==
    CHOOSE k \in 0..Len(line) :
        /\ \A j \in 1..k : CharIsWhitespace(line[j])
        /\ (k = Len(line) \/ ~CharIsWhitespace(line[k + 1]))

\* The display width the claim gives a whitespace character: a tab 8, a
\* control character 0, a wide character 2, any other 1.
ClaimedWidth(c) ==
    CASE c = "\t" -> 8
      [] c \in {"\r", "\f"} -> 0
      [] c = "U+3000" -> 2
      [] OTHER -> 1

RECURSIVE SumClaimed(_, _)
SumClaimed(line, k) ==
    IF k = 0 THEN 0 ELSE ClaimedWidth(line[k]) + SumClaimed(line, k - 1)

\* C27: indent_width is total: for every line it returns the sum of the
\* display widths of the leading run of whitespace characters, a tab
\* counting 8 and a control character 0, and it never aborts, also when the
\* leading whitespace holds a carriage return or a form feed.
C27_IndentWidthTotal ==
    IndentWidthReturned =>
      fn_ret.val = Ok(SumClaimed(fn_arg, LeadingRun(fn_arg)))

\* What indent_width does: it aborts exactly when the leading whitespace
\* holds a control character other than a tab, and returns the claimed sum
\* otherwise.
C27_WhereItReturns ==
    IndentWidthReturned =>
      IF \E j \in 1..LeadingRun(fn_arg) : fn_arg[j] \in {"\r", "\f"}
      THEN fn_ret.val = Abort
      ELSE fn_ret.val = Ok(SumClaimed(fn_arg, LeadingRun(fn_arg)))

(***************************************************************************)
(*                  crashlog (src/crashlog/src/lib.rs)                     *)
(***************************************************************************)
\* try_generate_report: the steps that can fail, in order: File::create,
\* each writeln!/write! by what it writes, and the flush.
ReportSteps ==
    <<"create", "Package", "Binary", "Version", "", "Architecture",
      "Operating system", "Timestamp", "", "Message", "Source location", "",
      "backtrace", "flush">>

\* What a panic meets: whether standard error is a terminal, the type of the
\* panic payload, whether the panic has a location, and the step of the
\* report at which the system refuses (0: none).
PanicEnvs ==
    [is_terminal : BOOLEAN, payload : {"&str", "String", "other"},
     location : BOOLEAN, fail_at : 0..Len(ReportSteps)]

\* What a step writes to the file.
ReportLine(step, env) ==
    CASE step = "Message" ->
           <<step, IF env.payload = "other" THEN "Unknown" ELSE "payload">>
      [] step = "Source location" ->
           <<step, IF env.location THEN "file:line" ELSE "(unknown)">>
      [] OTHER -> <<step>>

\* try_generate_report from the step i on, `file` being the lines written so
\* far: None as soon as a step fails (.ok()?), Some(path) after the flush
RECURSIVE ReportFrom(_, _, _)
ReportFrom(i, env, file) ==
    IF i > Len(ReportSteps) THEN [ret |-> Some("path"), file |-> Some(file)]
    ELSE IF env.fail_at = i
    THEN [ret |-> None, file |-> IF i = 1 THEN None ELSE Some(file)]
    ELSE ReportFrom(i + 1, env,
             IF ReportSteps[i] \in {"create", "flush"} THEN file
             ELSE Append(file, ReportLine(ReportSteps[i], env)))

\* try_generate_report(&metadata, info, &timestamp, &backtrace)
TryGenerateReport(env) == ReportFrom(1, env, <<>>)

\* else if !replace
Fallback(rep) == ~rep

\* The closure new_hook of setup!, called with a panic: what it writes to
\* standard error, the old hook's output being the event "old_hook"
NewHook(rep, env) ==
    LET report == TryGenerateReport(env) IN
    (IF ~rep THEN <<"old_hook">> ELSE <<>>)
    \o (IF report.ret # None
        THEN (IF env.is_terminal THEN <<"red">> ELSE <<>>)
             \o (IF ~rep THEN <<"---">> ELSE <<>>)
             \o <<"message">>
             \o (IF env.is_terminal THEN <<"reset">> ELSE <<>>)
        ELSE IF Fallback(rep) THEN <<"old_hook">>
        ELSE <<>>)

InitCrashlog ==
    /\ cl_pc = "start"
    /\ cl_replace \in BOOLEAN
    /\ cl_env \in PanicEnvs
    /\ cl_hook = "old"
    /\ cl_stderr = <<>>
    /\ cl_log = None
    /\ RCIdle /\ SrcIdle /\ DrvIdle /\ QIdle /\ RuleIdle /\ FnIdle

\* crashlog::setup!(metadata, replace): take_hook, set_hook
Setup ==
    /\ cl_pc = "start"
    /\ cl_hook' = "crashlog"
    /\ cl_pc' = "installed"
    /\ UNCHANGED <<cl_replace, cl_env, cl_stderr, cl_log,
                   rcVars, srcVars, drvVars, qVars, ruleVars, fnVars>>

\* A panic: the installed hook runs.
Panic ==
    /\ cl_pc = "installed"
    /\ cl_hook = "crashlog"
    /\ cl_stderr' = cl_stderr \o NewHook(cl_replace, cl_env)
    /\ cl_log' = TryGenerateReport(cl_env).file
    /\ cl_pc' = "handled"
    /\ UNCHANGED <<cl_replace, cl_env, cl_hook,
                   rcVars, srcVars, drvVars, qVars, ruleVars, fnVars>>

NextCrashlog == Setup \/ Panic

SpecCrashlog == InitCrashlog /\ [][NextCrashlog]_vars

\* ---- C28
Handled == cl_pc = "handled"

\* The report could not be created or written.
ReportFailed == cl_env.fail_at # 0

OldHookRuns == Cardinality({ i \in 1..Len(cl_stderr) : cl_stderr[i] = "old_hook" })

MessagePrinted == \E i \in 1..Len(cl_stderr) : cl_stderr[i] = "message"

\* C28: over the handling of one panic, when creating or writing the crash
\* log fails the previous hook runs exactly once, whether `replace` is true
\* or false; when the log is written the previous hook runs once, before the
\* crash message, if `replace` is false, and not at all if it is true.
C28_PreviousHookOnce ==
    Handled =>
      IF ReportFailed THEN OldHookRuns = 1 /\ ~MessagePrinted
      ELSE /\ MessagePrinted
           /\ (cl_replace => OldHookRuns = 0)
           /\ (~cl_replace => OldHookRuns = 1 /\ cl_stderr[1] = "old_hook")

\* What the hook does: when the log fails the previous hook has run twice
\* if `replace` is false and not at all if it is true.
C28_PreviousHookRuns ==
    Handled =>
      IF ReportFailed
      THEN /\ ~MessagePrinted
           /\ OldHookRuns = IF cl_replace THEN 0 ELSE 2
      ELSE /\ MessagePrinted
           /\ (cl_replace => OldHookRuns = 0)
           /\ (~cl_replace => OldHookRuns = 1 /\ cl_stderr[1] = "old_hook")

(***************************************************************************)
(*         range_without_trailing_eol (src/src/rules/rule3d.rs)            *)
(***************************************************************************)
\* Bound of the texts given to range_without_trailing_eol, in bytes.
MaxEol == 4

\* The bytes of those texts: the start of a directive, a letter, a carriage
\* return and a line feed.
EolBytes == {"#", "a", "\r", "\n"}

\* A text and a range of it.
EolInputs ==
    { [code |-> c, range |-> r] :
        c \in UNION { [1..n -> EolBytes] : n \in 0..MaxEol },
        r \in { q \in (0..MaxEol) \X (0..MaxEol) : q[1] <= q[2] } }

\* range_without_trailing_eol(range, code): &code[(range.end - 2)..range.end]
\* aborts when range.end < 2
RangeWithoutTrailingEolCall(range, c) ==
    IF range[2] < 2 THEN Abort
    ELSE Ok(RangeWithoutTrailingEol(range[1], range[2], c))

InitEol ==
    /\ fn_name = "range_without_trailing_eol"
    /\ fn_arg \in EolInputs
    /\ fn_arg.range[2] <= Len(fn_arg.code)
    /\ fn_ret = None
    /\ RCIdle /\ SrcIdle /\ DrvIdle /\ QIdle /\ RuleIdle /\ ClIdle

CallRangeWithoutTrailingEol ==
    /\ fn_name = "range_without_trailing_eol"
    /\ fn_ret = None
    /\ fn_ret' = Some(RangeWithoutTrailingEolCall(fn_arg.range, fn_arg.code))
    /\ UNCHANGED <<fn_name, fn_arg, rcVars, srcVars, drvVars, qVars, ruleVars, clVars>>

NextEol == CallRangeWithoutTrailingEol

SpecEol == InitEol /\ [][NextEol]_vars

EolReturned == fn_name = "range_without_trailing_eol" /\ fn_ret # None

\* ---- C29
\* The range of a #define: it starts at the directive and holds a byte more
\* at least.
IsDefineRange ==
    /\ fn_arg.range[2] - fn_arg.range[1] >= 2
    /\ fn_arg.code[fn_arg.range[1] + 1] = "#"

\* The text of the range.
EolText == SubSeq(fn_arg.code, fn_arg.range[1] + 1, fn_arg.range[2])

\* The length of the line terminator the text of the range ends with.
TerminatorLen ==
    LET t == EolText IN
    IF Len(t) >= 2 /\ t[Len(t) - 1] = "\r" /\ t[Len(t)] = "\n" THEN 2
    ELSE IF Len(t) >= 1 /\ t[Len(t)] = "\n" THEN 1
    ELSE 0

\* C29: for the range of a #define, range_without_trailing_eol leaves the
\* start unchanged and shortens the end by 2 when the text of the range ends
\* with "\r\n", by 1 when it ends with "\n" not preceded by "\r", and by 0
\* otherwise, a lone "\r" at the end and a #define that ends the file
\* without a line terminator included; the range returned ends at or after
\* its start and what was cut is the line terminator.
C29_TrailingEol ==
    (EolReturned /\ IsDefineRange) =>
      /\ fn_ret.val = Ok(<<fn_arg.range[1], fn_arg.range[2] - TerminatorLen>>)
      /\ fn_ret.val.val[1] <= fn_ret.val.val[2]
      /\ SubSeq(fn_arg.code, fn_ret.val.val[2] + 1, fn_arg.range[2])
           \in {<<>>, <<"\n">>, <<"\r", "\n">>}
      /\ (EolText[Len(EolText)] = "\r" => fn_ret.val.val = fn_arg.range)

\* The function has been called on the range of a #define that ends with
\* "\r\n" and has cut both bytes.
C29_Witness ==
    /\ EolReturned /\ IsDefineRange
    /\ TerminatorLen = 2
    /\ fn_ret.val.val[2] = fn_arg.range[2] - 2

(***************************************************************************)
(*   The other rules of the registry (src/src/rules/mod.rs), and the       *)
(*   machine-format printer (src/src/main.rs)                              *)
(***************************************************************************)
\* ---- Rule I:A (src/src/rules/rule1a.rs)
\* The kinds of the parent of a captured name.
NameParentKinds ==
    {"function_declarator", "struct_specifier", "union_specifier",
     "enum_specifier", "type_definition", "init_declarator"}

\* The captures of the query: a name that holds an uppercase character (the
\* query's #match?), under a parent, the i-th of the file.
NameCapture(k, t, i) ==
    [parent_kind |-> k, text |-> t, byte_range |-> <<MaxName * i, MaxName * i + Len(t)>>]

NameFiles ==
    {<<>>}
    \cup { <<NameCapture(k, t, 0)>> :
             k \in NameParentKinds, t \in {<<"B">>, <<"a", "_", "B">>} }
    \cup { <<NameCapture(k[1], <<"a", "B">>, 0), NameCapture(k[2], <<"B">>, 1)>> :
             k \in NameParentKinds \X NameParentKinds }

\* match capture.node.parent().unwrap().kind()
NameType(kind) ==
    CASE kind = "function_declarator" -> "Function"
      [] kind = "struct_specifier" -> "Struct"
      [] kind = "union_specifier" -> "Union"
      [] kind = "enum_specifier" -> "Enum"
      [] kind = "type_definition" -> "Type"
      [] OTHER -> "Variable"

\* Labels that are all secondary.
NameLabelsSecondary(capture) ==
    <<Label("secondary", capture.byte_range, "Name contains uppercase character(s)"),
      Label("secondary", capture.byte_range,
            <<"Perhaps you meant", GuessLowerSnakeCase(capture.text)>>)>>

\* vec![Label::primary(..), Label::secondary(..)]
NameLabels(capture) ==
    <<Label("primary", capture.byte_range, "Name contains uppercase character(s)"),
      Label("secondary", capture.byte_range,
            <<"Perhaps you meant", GuessLowerSnakeCase(capture.text)>>)>>

\* Rule1a::check
RECURSIVE Rule1aCheckResult(_)
Rule1aCheckResult(captures) ==
    IF captures = <<>> THEN <<>>
    ELSE <<Warning("I:A",
                   <<NameType(Head(captures).parent_kind),
                     "names must be in lower snake case.">>,
                   NameLabels(Head(captures)))>>
         \o Rule1aCheckResult(Tail(captures))

\* ---- Rule I:B (src/src/rules/rule01b.rs)
\* Rule01b::check
Rule01bCheckResult == <<>>

\* ---- Rule I:C (src/src/rules/rule01c.rs)
\* The captures of the query: the capture name and the text of the node.
ConstantCaptures ==
    { [name |-> "constant.name.short", text |-> <<"a">>],
      [name |-> "constant.name.short", text |-> <<"B">>],
      [name |-> "constant.name.contains_lower", text |-> <<"a">>],
      [name |-> "constant.name.contains_lower", text |-> <<"a", "B">>],
      [name |-> "constant.value.unwrapped_number", text |-> <<"1">>] }

ConstantFiles ==
    {<<>>} \cup { <<c>> : c \in ConstantCaptures }
           \cup { <<c[1], c[2]>> : c \in ConstantCaptures \X ConstantCaptures }

\* str::to_uppercase
RECURSIVE ToUppercase(_)
ToUppercase(t) ==
    IF t = <<>> THEN <<>>
    ELSE <<IF Head(t) = "a" THEN "A" ELSE Head(t)>> \o ToUppercase(Tail(t))

\* Rule01c::check: the closure, for the i-th capture
Rule01cCapture(capture, i) ==
    LET range == <<MaxName * i, MaxName * i + Len(capture.text)>>
        message == CASE capture.name = "constant.name.short" ->
                          "Constant name must contain at least 2 characters"
                     [] capture.name = "constant.name.contains_lower" ->
                          "Constant name must use upper snake case"
                     [] capture.name = "constant.value.unwrapped_number" ->
                          "Numeric constant value must be wrapped in parentheses"
        label == IF capture.name = "constant.value.unwrapped_number"
                 THEN "Value defined here" ELSE "Constant defined here"
        fix == CASE capture.name = "constant.name.short" -> None
                 [] capture.name = "constant.name.contains_lower" ->
                      Some(ToUppercase(capture.text))
                 [] capture.name = "constant.value.unwrapped_number" ->
                      Some(<<"(">> \o capture.text \o <<")">>)
    IN Warning("I:C", message,
               <<Label("primary", range, label)>>
               \o (IF fix # None
                   THEN <<Label("secondary", range, <<"Perhaps you meant", fix.val>>)>>
                   ELSE <<>>))

\* Rule01c::check
RECURSIVE Rule01cCheckResult(_, _)
Rule01cCheckResult(captures, i) ==
    IF captures = <<>> THEN <<>>
    ELSE <<Rule01cCapture(Head(captures), i)>>
         \o Rule01cCheckResult(Tail(captures), i + 1)

\* ---- Rules III:A, III:C, III:F
\* (src/src/rules/rule03a.rs, rule3c.rs, rule3f.rs)
\* The text `k ( ) {`, with what separates the keyword from the parenthesis
\* and the parenthesis from the brace.
FlowText(g1, g2) == <<"k">> \o g1 \o <<"(", ")">> \o g2 \o <<"{">>

\* The match of the query of Rule III:A in that text: four captures, or the
\* keyword and the parenthesis only (a `do` statement).
FlowMatch(g1, g2, n) ==
    LET t == FlowText(g1, g2) IN
    [len |-> n,
     keyword |-> NodeIn(t, 0, 1),
     lparen |-> NodeIn(t, 1 + Len(g1), 2 + Len(g1)),
     rparen |-> NodeIn(t, 2 + Len(g1), 3 + Len(g1)),
     lbrace |-> NodeIn(t, 3 + Len(g1) + Len(g2), 4 + Len(g1) + Len(g2))]

\* check_single_space_between(left, right, code, message)
CheckSingleSpaceBetween(left, right, c, message) ==
    IF left.end_byte + 1 = right.start_byte /\ c[left.end_byte + 1] = " "
    THEN <<>>
    ELSE <<Warning("III:A", message,
                   <<Label("primary", <<left.start_byte, right.end_byte>>, "")>>)>>

\* Rule03a::check: the closure given to for_each_match
Rule03aMatch(qmatch, c) ==
    (IF qmatch.len = 4
     THEN CheckSingleSpaceBetween(qmatch.rparen, qmatch.lbrace, c,
              "Expected a single space between the closing parenthesis and the opening brace")
     ELSE <<>>)
    \o CheckSingleSpaceBetween(qmatch.keyword, qmatch.lparen, c,
              "Expected a single space after the keyword")

\* Rule3c::check: the closure, the delimiter being the first node and the
\* next node the second
Rule3cMatch(delim, next, c) ==
    IF delim.end_row # next.start_row THEN <<>>
    ELSE IF ~IsSingleSpaceBetween(delim, next, c)
    THEN <<Warning("III:C", "Expected one space after internal commas and semicolons",
                   <<Label("primary", <<delim.start_byte, next.start_byte>>, "")>>)>>
    ELSE <<>>

\* Rule3f::check: the closure
Rule3fMatch(function, paren) ==
    IF function.end_byte # paren.start_byte
    THEN <<Warning("III:F", "Expected no space between function and parenthesis",
                   <<Label("primary", <<function.end_byte, paren.start_byte>>, "")>>)>>
    ELSE <<>>

\* ---- the rules above, one check each
OtherRuleCodes == {"I:A", "I:B", "I:C", "III:A", "III:C", "III:F"}

InitOtherRules ==
    /\ \/ /\ rule_code = "I:A" /\ nodes \in NameFiles /\ SrcIdle
       \/ /\ rule_code = "I:B" /\ nodes = <<>>
          /\ \E ts \in LineSeqs({<<>>, <<"a">>}) : SourceInfoNew(Unlines(ts))
       \/ /\ rule_code = "I:C" /\ nodes \in ConstantFiles /\ SrcIdle
       \/ \E g1 \in Gaps, g2 \in Gaps, n \in {2, 4} :
            /\ rule_code \in {"III:A", "III:C", "III:F"}
            /\ nodes = FlowMatch(g1, g2, n)
            /\ SourceInfoNew(FlowText(g1, g2))
    /\ diags = <<>>
    /\ rule_pc = "ready"
    /\ max_diagnostics = None
    /\ RCIdle /\ DrvIdle /\ QIdle /\ FnIdle /\ ClIdle

OtherRuleCheck ==
    /\ rule_pc = "ready"
    /\ rule_code \in OtherRuleCodes
    /\ diags' = CASE rule_code = "I:A" -> Rule1aCheckResult(nodes)
                  [] rule_code = "I:B" -> Rule01bCheckResult
                  [] rule_code = "I:C" -> Rule01cCheckResult(nodes, 0)
                  [] rule_code = "III:A" -> Rule03aMatch(nodes, code)
                  [] rule_code = "III:C" -> Rule3cMatch(nodes.keyword, nodes.lparen, code)
                  [] rule_code = "III:F" -> Rule3fMatch(nodes.keyword, nodes.lparen)
    /\ rule_pc' = "done"
    /\ UNCHANGED <<rule_code, nodes, max_diagnostics,
                   rcVars, srcVars, drvVars, qVars, fnVars, clVars>>

\* ---- the machine-format printer
\* The span print_machine_parseable reports: the first label whose style is
\* Primary (of a diagnostic with violations and references, the first
\* violation), or None
PrimaryLabel(d) ==
    IF "labels" \in DOMAIN d
    THEN IF \E i \in 1..Len(d.labels) : d.labels[i].style = "primary"
         THEN Some(d.labels[CHOOSE i \in 1..Len(d.labels) :
                       /\ d.labels[i].style = "primary"
                       /\ \A j \in 1..(i - 1) : d.labels[j].style # "primary"].range)
         ELSE None
    ELSE IF d.violations # <<>> THEN Some(d.violations[1].range)
    ELSE None

\* The for loop of main over the diagnostics of one rule, in the machine
\* format: the lines printed, or Abort at .expect("Diagnostic has no primary
\* label")
RECURSIVE PrintMachineParseable(_)
PrintMachineParseable(ds) ==
    IF ds = <<>> THEN Ok(<<>>)
    ELSE LET primary_label == PrimaryLabel(Head(ds))
             rest == PrintMachineParseable(Tail(ds))
         IN IF primary_label = None \/ rest = Abort THEN Abort
            ELSE Ok(<<[rule |-> Head(ds).rule, at |-> primary_label.val]>> \o rest.val)

PrintMachine ==
    /\ rule_pc = "done"
    /\ LET r == PrintMachineParseable(diags)
       IN IF r = Abort
          THEN printed' = printed /\ rule_pc' = "print_aborted"
          ELSE printed' = printed \o r.val /\ rule_pc' = "printed"
    /\ UNCHANGED <<rule_code, nodes, diags, max_diagnostics,
                   pc, read_ok, has_error, rule_i, checked, results, exit_code,
                   rcVars, srcVars, qVars, fnVars, clVars>>

\* Every rule of the registry on its inputs, then the printer.
InitRegistry ==
    \/ InitOtherRules \/ InitRule1d \/ InitRule02a \/ InitRule02b
    \/ InitRule3b \/ InitRule3d \/ InitRule03e \/ InitRule11a

NextRegistry ==
    \/ OtherRuleCheck \/ Rule1dCheck \/ Rule02aCheck \/ Rule02bCheck
    \/ Rule3bCheck \/ Rule3dCheck \/ Rule03eCheck \/ Rule11aCheck
    \/ PrintMachine

SpecRegistry == InitRegistry /\ [][NextRegistry]_vars

\* ---- C30
HasPrimarySpan(d) ==
    IF "labels" \in DOMAIN d
    THEN \E i \in 1..Len(d.labels) : d.labels[i].style = "primary"
    ELSE Len(d.violations) >= 1

\* C30: every diagnostic a rule of the registry returns has at least one
\* violation (primary) span, and the machine-format printer never aborts on
\* the diagnostics of a rule.
C30_PrimarySpan ==
    /\ rule_pc \in {"done", "printed", "print_aborted"} =>
         \A k \in 1..Len(diags) : HasPrimarySpan(diags[k])
    /\ rule_pc # "print_aborted"
    /\ rule_pc = "printed" => Len(printed) = Len(diags)

\* The printer has printed the two diagnostics of a rule, the second of
\* which has a span that is not primary next to its primary span.
C30_Witness ==
    /\ rule_pc = "printed"
    /\ Len(diags) = 2
    /\ Len(printed) = 2
    /\ "labels" \in DOMAIN diags[2]
    /\ \E i \in 1..Len(diags[2].labels) : diags[2].labels[i].style = "secondary"
    /\ printed[2].at = PrimaryLabel(diags[2]).val
====
